---- MODULE Spec2Model ----
(***************************************************************************)
(* Model of the xmlctx namespace-aware XML decoder (decoder.go).           *)
(*                                                                         *)
(* Strings (tags, names, URIs, text) are sequences of one-character        *)
(* strings, so that Split / Contains / HasPrefix / TrimSpace / ParseInt    *)
(* are computed the way the Go code computes them.                         *)
(*                                                                         *)
(* The decoder is a recursive-descent reader of the token stream of an     *)
(* encoding/xml Decoder.  One action of the model is one call of           *)
(* decoder.Token() together with everything the code does until the next   *)
(* call of Token(); the Go call stack is the variable `stack`.             *)
(*                                                                         *)
(* Outside the model: targets that implement xml.Unmarshaler,              *)
(* xml.UnmarshalerAttr or encoding.TextUnmarshaler, XMLName fields         *)
(* (setXMLName), the names of end elements, and the text the xml.Encoder   *)
(* writes for an innerxml field (the model keeps the tokens handed to it). *)
(***************************************************************************)
EXTENDS Integers, Sequences, FiniteSets, TLC

(***************************************************************************)
(* Bounds of the model                                                     *)
(***************************************************************************)
\* tokens the token source hands out in one Decode call
MaxTokens == 6
\* open elements of the document
MaxDepth == 4

(***************************************************************************)
(* strings package, on sequences of characters                             *)
(***************************************************************************)
\* the element of a one-element set.  Only({ e : x \in {a} }) is e with x standing for the
\* value of a, which is then computed once.
Only(S) == CHOOSE x \in S : TRUE

\* the least element of a set of indices, 0 for the empty set
FirstIdx(S) == IF S = {} THEN 0 ELSE CHOOSE i \in S : \A j \in S : i <= j

HasPrefix(s, p) == Len(s) >= Len(p) /\ SubSeq(s, 1, Len(p)) = p

Contains(s, sub) ==
    \E i \in 1..(Len(s) - Len(sub) + 1) : SubSeq(s, i, i + Len(sub) - 1) = sub

\* index of the first occurrence of the character c in s, 0 when absent
IndexOf(s, c) == FirstIdx({ i \in 1..Len(s) : s[i] = c })

RECURSIVE Split(_, _)
\* strings.Split(s, sep) for a one-character separator
Split(s, sep) ==
    IF IndexOf(s, sep) = 0 THEN <<s>>
    ELSE <<SubSeq(s, 1, IndexOf(s, sep) - 1)>>
         \o Split(SubSeq(s, IndexOf(s, sep) + 1, Len(s)), sep)

\* strings.SplitN(s, sep, 2) for a string that contains sep
SplitN2(s, sep) ==
    <<SubSeq(s, 1, IndexOf(s, sep) - 1), SubSeq(s, IndexOf(s, sep) + 1, Len(s))>>

RECURSIVE Join(_, _)
Join(parts, sep) ==
    IF Len(parts) = 0 THEN <<>>
    ELSE IF Len(parts) = 1 THEN parts[1]
    ELSE parts[1] \o <<sep>> \o Join(Tail(parts), sep)

IsSpace(c) == c \in {" ", "\n", "\t", "\r"}

RECURSIVE TrimLeft(_)
TrimLeft(s) == IF Len(s) > 0 /\ IsSpace(s[1]) THEN TrimLeft(Tail(s)) ELSE s

RECURSIVE TrimRight(_)
TrimRight(s) ==
    IF Len(s) > 0 /\ IsSpace(s[Len(s)]) THEN TrimRight(SubSeq(s, 1, Len(s) - 1)) ELSE s

TrimSpace(s) == TrimRight(TrimLeft(s))

(***************************************************************************)
(* strconv.ParseInt(s, 10, 64) and strconv.ParseUint(s, 10, 64)            *)
(***************************************************************************)
Digits == {"0", "1", "2", "3", "4", "5", "6", "7", "8", "9"}

DigitVal(c) ==
    CASE c = "0" -> 0 [] c = "1" -> 1 [] c = "2" -> 2 [] c = "3" -> 3 [] c = "4" -> 4
      [] c = "5" -> 5 [] c = "6" -> 6 [] c = "7" -> 7 [] c = "8" -> 8 [] c = "9" -> 9

AllDigits(s) == Len(s) > 0 /\ \A i \in 1..Len(s) : s[i] \in Digits

RECURSIVE DecVal(_)
DecVal(s) == IF Len(s) = 0 THEN 0 ELSE DecVal(SubSeq(s, 1, Len(s) - 1)) * 10 + DigitVal(s[Len(s)])

\* err == nil of ParseUint.  The texts of the model have fewer than ten digits,
\* so the 64-bit range error of strconv does not arise.
ParseUintOk(s) == AllDigits(s)

ParseUintVal(s) == DecVal(s)

\* err == nil of ParseInt: an optional sign followed by a non-empty digit string
ParseIntOk(s) ==
    /\ Len(s) > 0
    /\ LET body == IF s[1] \in {"+", "-"} THEN Tail(s) ELSE s
       IN AllDigits(body)

ParseIntVal(s) ==
    IF s[1] = "-" THEN 0 - DecVal(Tail(s))
    ELSE IF s[1] = "+" THEN DecVal(Tail(s))
    ELSE DecVal(s)

\* a SetInt that stores the nearest value of the field's width
WrapIntSaturating(x, bits) ==
    IF bits >= 31 THEN x
    ELSE IF x > 2^(bits - 1) - 1 THEN 2^(bits - 1) - 1
    ELSE IF x < 0 - 2^(bits - 1) THEN 0 - 2^(bits - 1)
    ELSE x

\* reflect.Value.SetInt / SetUint store the value converted to the field's width
WrapInt(x, bits) ==
    IF bits >= 31 THEN x
    ELSE ((x + 2^(bits - 1)) % 2^bits) - 2^(bits - 1)

WrapUint(x, bits) == IF bits >= 31 THEN x ELSE x % 2^bits

(***************************************************************************)
(* Keywords of the struct tags                                             *)
(***************************************************************************)
sAttr == <<"a", "t", "t", "r">>
sChardata == <<"c", "h", "a", "r", "d", "a", "t", "a">>
sCdata == <<"c", "d", "a", "t", "a">>
sInnerxml == <<"i", "n", "n", "e", "r", "x", "m", "l">>
sComment == <<"c", "o", "m", "m", "e", "n", "t">>
sAny == <<",", "a", "n", "y">>
sAnyAttr == <<",", "a", "n", "y", ",", "a", "t", "t", "r">>
sXmlns == <<"x", "m", "l", "n", "s">>
sDash == <<"-">>

(***************************************************************************)
(* Go types of decode targets (reflect.Type) and their zero values         *)
(***************************************************************************)
TString == [kind |-> "string"]
TBool == [kind |-> "bool"]
TInt(bits) == [kind |-> "int", bits |-> bits]
TUint(bits) == [kind |-> "uint", bits |-> bits]
TFloat == [kind |-> "float64"]
TPtr(t) == [kind |-> "ptr", elem |-> t]
TSlice(t) == [kind |-> "slice", elem |-> t]
\* xml.Attr, a struct type outside this package; []xml.Attr is TSlice(TAttr)
TAttr == [kind |-> "xml.Attr"]
TStruct(fields) == [kind |-> "struct", fields |-> fields]
\* a struct field: its `xml` tag and its type
Field(tag, type) == [tag |-> tag, type |-> type]

RECURSIVE Zero(_)
Zero(t) ==
    CASE t.kind = "string" -> <<>>
      [] t.kind = "bool" -> FALSE
      [] t.kind \in {"int", "uint", "float64"} -> 0
      [] t.kind \in {"ptr", "slice"} -> <<>>
      [] t.kind = "struct" -> [i \in 1..Len(t.fields) |-> Zero(t.fields[i].type)]
      [] OTHER -> <<>>

(***************************************************************************)
(* Tokens of encoding/xml                                                  *)
(***************************************************************************)
Name(space, local) == [space |-> space, local |-> local]
Attr(space, local, value) == [name |-> Name(space, local), value |-> value]
StartElement(space, local, attr) ==
    [k |-> "start", name |-> Name(space, local), attr |-> attr, v |-> <<>>]
EndElement == [k |-> "end", name |-> Name(<<>>, <<>>), attr |-> <<>>, v |-> <<>>]
CharData(v) == [k |-> "chardata", name |-> Name(<<>>, <<>>), attr |-> <<>>, v |-> v]
Comment(v) == [k |-> "comment", name |-> Name(<<>>, <<>>), attr |-> <<>>, v |-> v]
ProcInst == [k |-> "procinst", name |-> Name(<<>>, <<>>), attr |-> <<>>, v |-> <<>>]
\* the value of a token variable that holds no token
NoToken == [k |-> "none", name |-> Name(<<>>, <<>>), attr |-> <<>>, v |-> <<>>]

VARIABLES
    namespaces,   \* Decoder.namespaces: prefix -> URI
    rv,           \* what was passed to Decode: "ptr" (a non-nil pointer), "nil" (a
                  \* nil pointer) or "value" (not a pointer)
    rtype,        \* the type of the value the Decode target points to
    target,       \* the value the Decode target points to
    stack,        \* the Go call stack of Decode, innermost frame last
    status,       \* "call" before Decode is called, "run" while it is executing,
                  \* "done" once it returned
    err,          \* the error Decode returned ("nil" for none)
    depth,        \* xml.Decoder: number of open elements of the document
    ntok,         \* start, text and comment tokens handed out so far
    srcErr,       \* xml.Decoder: the error Token() keeps returning ("nil" for none)
    prior,        \* history: the value the target held when Decode was called
    events,       \* history: what has happened during the call, see Observe
    snap,         \* history: the decoder as it was before a start element a
                  \* decodeStruct loop read, kept until that element has ended
    doc           \* history: the elements of the document along the paths of the
                  \* path descriptors, see Watch

vars == <<namespaces, rv, rtype, target, stack, status, err, depth, ntok, srcErr,
          prior, events, snap, doc>>

(***************************************************************************)
(* Matching of tags against identities                                     *)
(***************************************************************************)
\* matchesField without the namespace check of unprefixed tags
matchesFieldLocalOnly(tag, elemLocal, elemNS) ==
    IF Contains(tag, <<":">>)
    THEN \E parts \in {SplitN2(tag, ":")} :
            IF parts[1] \notin DOMAIN namespaces
            THEN FALSE
            ELSE parts[2] = elemLocal /\ namespaces[parts[1]] = elemNS
    ELSE tag = elemLocal

\* matchesField with an unknown tag prefix matching on the local name alone
matchesFieldWildcard(tag, elemLocal, elemNS) ==
    IF Contains(tag, <<":">>)
    THEN \E parts \in {SplitN2(tag, ":")} :
            IF parts[1] \notin DOMAIN namespaces
            THEN parts[2] = elemLocal
            ELSE parts[2] = elemLocal /\ namespaces[parts[1]] = elemNS
    ELSE IF tag # elemLocal THEN FALSE
    ELSE IF <<>> \in DOMAIN namespaces THEN elemNS = namespaces[<<>>]
    ELSE elemNS = <<>>

\* matchesField without the no-namespace check of a context that has no default
matchesFieldNoDefault(tag, elemLocal, elemNS) ==
    IF Contains(tag, <<":">>)
    THEN \E parts \in {SplitN2(tag, ":")} :
            IF parts[1] \notin DOMAIN namespaces
            THEN FALSE
            ELSE parts[2] = elemLocal /\ namespaces[parts[1]] = elemNS
    ELSE IF tag # elemLocal THEN FALSE
    ELSE IF <<>> \in DOMAIN namespaces THEN elemNS = namespaces[<<>>]
    ELSE TRUE

\* matchesField checks if a struct tag matches an element
matchesField(tag, elemLocal, elemNS) ==
    IF Contains(tag, <<":">>)
    THEN \E parts \in {SplitN2(tag, ":")} :
            \* parts[1] is tagPrefix, parts[2] is tagLocal
            IF parts[1] \notin DOMAIN namespaces
            THEN FALSE
            ELSE parts[2] = elemLocal /\ namespaces[parts[1]] = elemNS
    ELSE IF tag # elemLocal THEN FALSE
    ELSE IF <<>> \in DOMAIN namespaces THEN elemNS = namespaces[<<>>]
    ELSE elemNS = <<>>

\* matchesAttribute with the default namespace applied to unprefixed tags
matchesAttributeDefaultNS(tag, attr) ==
    IF Contains(tag, <<":">>)
    THEN \E parts \in {SplitN2(tag, ":")} :
            IF parts[1] \notin DOMAIN namespaces
            THEN FALSE
            ELSE parts[2] = attr.name.local /\ namespaces[parts[1]] = attr.name.space
    ELSE IF tag # attr.name.local THEN FALSE
    ELSE IF <<>> \in DOMAIN namespaces THEN attr.name.space = namespaces[<<>>]
    ELSE attr.name.space = <<>>

\* matchesAttribute checks if a struct tag matches an attribute
matchesAttribute(tag, attr) ==
    IF Contains(tag, <<":">>)
    THEN \E parts \in {SplitN2(tag, ":")} :
            \* parts[1] is tagPrefix, parts[2] is tagLocal
            IF parts[1] \notin DOMAIN namespaces
            THEN FALSE
            ELSE parts[2] = attr.name.local /\ namespaces[parts[1]] = attr.name.space
    ELSE tag = attr.name.local

(***************************************************************************)
(* Special fields of a struct type: index of the field, 0 for none         *)
(***************************************************************************)
FirstField(t, P(_)) == FirstIdx({ i \in 1..Len(t.fields) : P(t.fields[i].tag) })

IsChardataTag(tag) == tag # <<>> /\ Contains(tag, sChardata)
IsCDataTag(tag) == tag # <<>> /\ Contains(tag, sCdata) /\ ~Contains(tag, sChardata)
IsInnerXMLTag(tag) == tag # <<>> /\ Contains(tag, sInnerxml)
IsAnyTag(tag) == tag # <<>> /\ Contains(tag, sAny) /\ ~Contains(tag, sAnyAttr)
IsCommentTag(tag) == tag # <<>> /\ Contains(tag, sComment)
IsAnyAttrTag(tag) == tag # <<>> /\ Contains(tag, sAnyAttr)

findChardataField(t) == FirstField(t, IsChardataTag)
findCDataField(t) == FirstField(t, IsCDataTag)
findInnerXMLField(t) == FirstField(t, IsInnerXMLTag)
findAnyField(t) == FirstField(t, IsAnyTag)
findCommentField(t) == FirstField(t, IsCommentTag)

(***************************************************************************)
(* Resolution of a start element against the fields of a struct type       *)
(***************************************************************************)
\* the name part of a tag, and its first path segment
TagName(tag) == Split(tag, ",")[1]
FirstSegment(tagName) == Split(tagName, ">")[1]

\* the tags findFieldWithTag and findAllPathFieldsWithPrefix do not look at
SkippedForElements(tag) ==
    \/ tag = <<>> \/ tag = sDash
    \/ Contains(tag, sAttr)
    \/ HasPrefix(TagName(tag), sXmlns)
    \/ \E tagParts \in {Split(tag, ",")} :
          Len(tagParts) > 1 /\ (tagParts[2] = sAttr \/ tagParts[2] = sChardata)

\* findFieldWithTag returning the last field that matches the element
findLastFieldWithTag(t, start) ==
    LET found == { i \in 1..Len(t.fields) :
                    /\ ~SkippedForElements(t.fields[i].tag)
                    /\ matchesField(FirstSegment(TagName(t.fields[i].tag)),
                                    start.name.local, start.name.space) }
    IN IF found = {} THEN 0 ELSE CHOOSE i \in found : \A j \in found : j <= i

\* findFieldWithTag: index of the first field matching the element, 0 for the error
findFieldWithTag(t, start) ==
    FirstIdx({ i \in 1..Len(t.fields) :
                /\ ~SkippedForElements(t.fields[i].tag)
                /\ matchesField(FirstSegment(TagName(t.fields[i].tag)),
                                start.name.local, start.name.space) })

RECURSIVE PathFieldsFrom(_, _, _)
PathFieldsFrom(t, start, i) ==
    IF i > Len(t.fields) THEN <<>>
    ELSE (IF /\ ~SkippedForElements(t.fields[i].tag)
             /\ Contains(TagName(t.fields[i].tag), <<">">>)
             /\ matchesField(FirstSegment(TagName(t.fields[i].tag)),
                             start.name.local, start.name.space)
          THEN <<[field |-> i, tag |-> TagName(t.fields[i].tag)]>>
          ELSE <<>>)
         \o PathFieldsFrom(t, start, i + 1)

\* findAllPathFieldsWithPrefix giving way to a field without path that matches
findAllPathFieldsAfterFields(t, start) ==
    IF \E i \in 1..Len(t.fields) :
          /\ ~SkippedForElements(t.fields[i].tag)
          /\ ~Contains(TagName(t.fields[i].tag), <<">">>)
          /\ matchesField(TagName(t.fields[i].tag), start.name.local, start.name.space)
    THEN <<>>
    ELSE PathFieldsFrom(t, start, 1)

\* findAllPathFieldsWithPrefix: the pathFieldInfo list, in field order
findAllPathFieldsWithPrefix(t, start) == PathFieldsFrom(t, start, 1)

(***************************************************************************)
(* Attributes                                                              *)
(***************************************************************************)
sTrue == <<"t", "r", "u", "e">>

RECURSIVE setFieldValue(_, _, _)
\* setFieldValue sets a field value from a string: the new value and the error
setFieldValue(t, v, s) ==
    CASE t.kind = "ptr" ->
            Only({ [val |-> <<r.val>>, err |-> r.err] :
                   r \in {setFieldValue(t.elem, IF v = <<>> THEN Zero(t.elem) ELSE v[1], s)} })
      [] t.kind = "string" -> [val |-> s, err |-> "nil"]
      [] t.kind = "bool" -> [val |-> (s = sTrue), err |-> "nil"]
      [] t.kind = "int" ->
            IF ParseIntOk(s)
            THEN [val |-> WrapInt(ParseIntVal(s), t.bits), err |-> "nil"]
            ELSE [val |-> v, err |-> "failed to parse integer"]
      [] t.kind = "uint" ->
            IF ParseUintOk(s)
            THEN [val |-> WrapUint(ParseUintVal(s), t.bits), err |-> "nil"]
            ELSE [val |-> v, err |-> "failed to parse unsigned integer"]
      [] OTHER -> [val |-> v, err |-> "unsupported field type"]

\* index of the first attribute the tag name matches, 0 for none
FirstAttr(attrName, attrs) ==
    FirstIdx({ a \in 1..Len(attrs) : matchesAttribute(attrName, attrs[a]) })

\* the fields the second pass of decodeAttributes looks at
IsAttrField(t, i, anyAttrFieldIdx) ==
    /\ i # anyAttrFieldIdx
    /\ t.fields[i].tag # <<>>
    /\ Contains(t.fields[i].tag, sAttr)
    /\ ~Contains(t.fields[i].tag, sAnyAttr)
    /\ ~HasPrefix(TagName(t.fields[i].tag), sXmlns)

\* one field of the second pass: the attribute found (0 for none) and the
\* outcome of setFieldValue
AttrSet(t, val, attrs, i, attrIdx) ==
    IF attrIdx = 0 THEN [val |-> val[i], err |-> "nil"]
    ELSE setFieldValue(t.fields[i].type, val[i], attrs[attrIdx].value)

RECURSIVE AttrPass(_, _, _, _, _, _)
\* second pass of decodeAttributes from field i on: the struct value, the error
\* and matchedAttrs
AttrPass(t, val, attrs, i, matchedAttrs, anyAttrFieldIdx) ==
    IF i > Len(t.fields) THEN [val |-> val, err |-> "nil", matchedAttrs |-> matchedAttrs]
    ELSE IF ~IsAttrField(t, i, anyAttrFieldIdx)
    THEN AttrPass(t, val, attrs, i + 1, matchedAttrs, anyAttrFieldIdx)
    ELSE Only({
            IF r.err # "nil"
            THEN [val |-> [val EXCEPT ![i] = r.val], err |-> r.err,
                  matchedAttrs |-> matchedAttrs]
            ELSE AttrPass(t, [val EXCEPT ![i] = r.val], attrs, i + 1,
                          matchedAttrs \cup ({attrIdx} \ {0}), anyAttrFieldIdx)
            : attrIdx \in {FirstAttr(TagName(t.fields[i].tag), attrs)},
              r \in {AttrSet(t, val, attrs, i,
                             FirstAttr(TagName(t.fields[i].tag), attrs))} })

\* the subsequence of s at the indices in keep, in order
RECURSIVE SelectIdx(_, _, _)
SelectIdx(s, keep, i) ==
    IF i > Len(s) THEN <<>>
    ELSE (IF i \in keep THEN <<s[i]>> ELSE <<>>) \o SelectIdx(s, keep, i + 1)

\* the first pass of decodeAttributes: index of the ,any,attr field, 0 for none
findAnyAttrIdx(t) == FirstField(t, IsAnyAttrTag)

\* the third pass of decodeAttributes, after second pass r
AnyAttrPass(t, attrs, r, anyAttrFieldIdx, unmatchedAttrs) ==
    IF r.err # "nil" THEN [val |-> r.val, err |-> r.err]
    ELSE IF /\ anyAttrFieldIdx # 0
            /\ Len(unmatchedAttrs) > 0
            /\ t.fields[anyAttrFieldIdx].type = TSlice(TAttr)
    THEN [val |-> [r.val EXCEPT ![anyAttrFieldIdx] = unmatchedAttrs], err |-> "nil"]
    ELSE [val |-> r.val, err |-> "nil"]

\* decodeAttributes decodes XML attributes into struct fields
decodeAttributes(t, val, attrs) ==
    Only({ AnyAttrPass(t, attrs, r, anyAttrFieldIdx,
                       SelectIdx(attrs, (1..Len(attrs)) \ r.matchedAttrs, 1))
           : anyAttrFieldIdx \in {FirstField(t, IsAnyAttrTag)},
             r \in {AttrPass(t, val, attrs, 1, {}, FirstField(t, IsAnyAttrTag))} })

(***************************************************************************)
(* The call stack.  A frame is one activation of a function of decoder.go  *)
(* that is waiting, either for the next token (the innermost frame) or for *)
(* a call it made to return.  The operators below run the code from one    *)
(* call of Token() to the next and yield the outcome:                      *)
(*   Wait(stk)    the innermost frame of stk calls Token() next            *)
(*   Done(v, e)   Decode returned e, the target holds v                    *)
(***************************************************************************)
Wait(stk) == [done |-> FALSE, stack |-> stk, val |-> <<>>, err |-> "nil"]
\* Decode putting the target back to what it held when it returns an error
DoneRolledBack(v, e) ==
    [done |-> TRUE, stack |-> <<>>, val |-> IF e = "nil" THEN v ELSE prior, err |-> e]

Done(v, e) == [done |-> TRUE, stack |-> <<>>, val |-> v, err |-> e]

Top(stk) == stk[Len(stk)]
Pop(stk) == SubSeq(stk, 1, Len(stk) - 1)
Push(stk, f) == Append(stk, f)
SetTop(stk, f) == [stk EXCEPT ![Len(stk)] = f]

\* Decoder.Decode, in its token loop
DecodeFrame == [k |-> "Decode"]
\* decodeElement, pointer or slice case, waiting for the recursive decodeElement
ElementFrame(case, val) == [k |-> "decodeElement", case |-> case, val |-> val]
\* decodeAnyElement, waiting for decodeElement or, after decodeElement failed
\* with e, for Skip
AnyFrame(mode, val, e) == [k |-> "decodeAnyElement", mode |-> mode, val |-> val, e |-> e]
\* decodeStruct in its child loop; call says what it is waiting for and tok is
\* the start element it is waiting about (t of the StartElement case)
StructFrame(t, val) ==
    [k |-> "decodeStruct", t |-> t, val |-> val, chardata |-> <<>>, comments |-> <<>>,
     tok |-> NoToken, call |-> "none", i |-> 0]
\* decodeStruct in its innerxml loop; buf is what was handed to the encoder
InnerXMLFrame(t, val) ==
    [k |-> "innerxml", t |-> t, val |-> val, buf |-> <<>>, depth |-> 0]
\* decodeMultiplePathFields; tok, i, matchingFields, matchingIndices and
\* matchedAny are the locals of the start-element case
PathFrame(t, val, pathFields) ==
    [k |-> "decodeMultiplePathFields", t |-> t, val |-> val, pathFields |-> pathFields,
     foundFields |-> {}, tok |-> NoToken, i |-> 0, matchingFields |-> <<>>,
     matchingIndices |-> {}, matchedAny |-> FALSE, call |-> "none"]
\* decodeString, decodeBool, decodeInt, decodeUint
PrimFrame(fn, t, val) == [k |-> fn, t |-> t, val |-> val, s |-> <<>>]
\* xml.Decoder.Skip
SkipFrame == [k |-> "Skip", depth |-> 0]

RECURSIVE Return(_, _, _)
RECURSIVE decodeElement(_, _, _, _)
RECURSIVE PathFor(_, _)

\* decodeStruct up to its first call of Token(); stk is the stack of the caller
decodeStruct(stk0, t, v0, start) ==
    Only({
        LET r == decodeAttributes(t, v, start.attr)
        IN IF r.err # "nil" THEN Return(stk, r.val, r.err)
           ELSE IF findInnerXMLField(t) # 0 THEN Wait(Push(stk, InnerXMLFrame(t, r.val)))
           ELSE Wait(Push(stk, StructFrame(t, r.val)))
        : stk \in {stk0}, v \in {v0} })

\* decodeElement decodes an XML element into a value of type t holding v
decodeElement(stk0, t, v0, start) ==
    Only({
        CASE t.kind = "ptr" ->
                decodeElement(Push(stk, ElementFrame("ptr", v)), t.elem,
                              IF v = <<>> THEN Zero(t.elem) ELSE v[1], start)
          [] t.kind = "struct" -> decodeStruct(stk, t, v, start)
          [] t.kind = "string" -> Wait(Push(stk, PrimFrame("decodeString", t, v)))
          [] t.kind = "bool" -> Wait(Push(stk, PrimFrame("decodeBool", t, v)))
          [] t.kind = "int" -> Wait(Push(stk, PrimFrame("decodeInt", t, v)))
          [] t.kind = "uint" -> Wait(Push(stk, PrimFrame("decodeUint", t, v)))
          [] t.kind = "slice" ->
                decodeElement(Push(stk, ElementFrame("slice", v)), t.elem, Zero(t.elem), start)
          [] OTHER -> Return(stk, v, "unsupported type")
        : stk \in {stk0}, v \in {v0} })

\* decodeAnyElement decodes an unmatched element into the ,any field
decodeAnyElement(stk0, t, v0, start) ==
    Only({
        IF t.kind = "slice"
        THEN decodeElement(Push(stk, AnyFrame("slice", v, "nil")), t.elem, Zero(t.elem), start)
        ELSE IF t.kind = "ptr"
        THEN decodeElement(Push(stk, AnyFrame("ptr", v, "nil")), t.elem,
                           IF v = <<>> THEN Zero(t.elem) ELSE v[1], start)
        ELSE decodeElement(Push(stk, AnyFrame("direct", v, "nil")), t, v, start)
        : stk \in {stk0}, v \in {v0} })

\* a path group that forgets which of its fields it has decoded
foundFieldsForgotten(f, i) == FALSE

\* foundFields[i] of the path group f
foundFields(f, i) == i \in f.foundFields

\* the for loop over pathFields in the start-element case of
\* decodeMultiplePathFields, from index i on, and what follows the loop
PathFor(stk0, i) ==
    Only({
        LET f == Top(stk)
        IN IF i > Len(f.pathFields)
           THEN IF Len(f.matchingFields) > 0
                THEN Wait(Push(SetTop(stk, [f EXCEPT !.call = "path"]),
                               PathFrame(f.t, f.val, f.matchingFields)))
                ELSE IF ~f.matchedAny
                THEN Wait(Push(SetTop(stk, [f EXCEPT !.call = "skip"]), SkipFrame))
                ELSE Wait(SetTop(stk, [f EXCEPT !.call = "none", !.tok = NoToken]))
           ELSE LET pf == f.pathFields[i]
                    pathSegments == Split(pf.tag, ">")
                IN IF foundFields(f, i) \/ Len(pathSegments) < 2
                   THEN PathFor(stk, i + 1)
                   ELSE IF ~matchesField(pathSegments[2], f.tok.name.local, f.tok.name.space)
                   THEN PathFor(stk, i + 1)
                   ELSE IF Len(pathSegments) = 2
                   THEN decodeElement(
                            SetTop(stk, [f EXCEPT !.matchedAny = TRUE, !.call = "field", !.i = i]),
                            f.t.fields[pf.field].type, f.val[pf.field], f.tok)
                   ELSE PathFor(
                            SetTop(stk, [f EXCEPT
                                !.matchedAny = TRUE,
                                !.matchingFields = Append(@,
                                    [field |-> pf.field,
                                     tag |-> Join(Tail(pathSegments), ">")]),
                                !.matchingIndices = @ \cup {i}]),
                            i + 1)
        : stk \in {stk0} })

\* a call returns value v and error e to the innermost frame of stk
Return(stk0, v0, e) ==
    Only({
        LET f == Top(stk)
        IN CASE f.k = "Decode" -> Done(v, e)
             [] f.k = "decodeElement" /\ f.case = "ptr" -> Return(Pop(stk), <<v>>, e)
             [] f.k = "decodeElement" /\ f.case = "slice" ->
                    IF e # "nil" THEN Return(Pop(stk), f.val, e)
                    ELSE Return(Pop(stk), Append(f.val, v), "nil")
             [] f.k = "decodeAnyElement" /\ f.mode = "slice" ->
                    IF e # "nil"
                    THEN Wait(Push(SetTop(stk, AnyFrame("skip", f.val, e)), SkipFrame))
                    ELSE Return(Pop(stk), Append(f.val, v), "nil")
             [] f.k = "decodeAnyElement" /\ f.mode = "skip" -> Return(Pop(stk), f.val, e)
             [] f.k = "decodeAnyElement" /\ f.mode = "ptr" -> Return(Pop(stk), <<v>>, e)
             [] f.k = "decodeAnyElement" /\ f.mode = "direct" -> Return(Pop(stk), v, e)
             [] f.k = "decodeStruct" /\ f.call = "field" ->
                    LET val2 == [f.val EXCEPT ![f.i] = v]
                    IN IF e # "nil" THEN Return(Pop(stk), val2, e)
                       ELSE Wait(SetTop(stk, [f EXCEPT !.val = val2, !.tok = NoToken,
                                                       !.call = "none", !.i = 0]))
             [] f.k = "decodeStruct" /\ f.call = "path" ->
                    IF e # "nil" THEN Return(Pop(stk), v, e)
                    ELSE Wait(SetTop(stk, [f EXCEPT !.val = v, !.tok = NoToken, !.call = "none"]))
             [] f.k = "decodeStruct" /\ f.call = "skip" ->
                    IF e # "nil" THEN Return(Pop(stk), f.val, e)
                    ELSE Wait(SetTop(stk, [f EXCEPT !.tok = NoToken, !.call = "none"]))
             [] f.k = "decodeMultiplePathFields" /\ f.call = "field" ->
                    LET val2 == [f.val EXCEPT ![f.pathFields[f.i].field] = v]
                    IN IF e # "nil" THEN Return(Pop(stk), val2, e)
                       ELSE PathFor(SetTop(stk, [f EXCEPT !.val = val2,
                                                          !.foundFields = @ \cup {f.i}]),
                                    f.i + 1)
             [] f.k = "decodeMultiplePathFields" /\ f.call = "path" ->
                    IF e # "nil" THEN Return(Pop(stk), v, e)
                    ELSE Wait(SetTop(stk, [f EXCEPT !.val = v, !.tok = NoToken, !.call = "none",
                                                    !.foundFields = @ \cup f.matchingIndices]))
             [] f.k = "decodeMultiplePathFields" /\ f.call = "skip" ->
                    IF e # "nil" THEN Return(Pop(stk), f.val, e)
                    ELSE Wait(SetTop(stk, [f EXCEPT !.tok = NoToken, !.call = "none"]))
        : stk \in {stk0}, v \in {v0} })

(***************************************************************************)
(* One iteration of each token loop.  r is what Token() returned:          *)
(* r.err is "nil" and r.tok the token, or r.err is io.EOF ("EOF") or       *)
(* another error of the token source.                                      *)
(***************************************************************************)
\* the loop of Decoder.Decode returning io.EOF like any other error
DecodeLoopEOFError(stk, r, t, tgt) ==
    IF r.err # "nil" THEN Done(tgt, r.err)
    ELSE IF r.tok.k = "start" THEN decodeElement(stk, t, tgt, r.tok)
    ELSE Wait(stk)

\* the loop of Decoder.Decode going on at the end of the stream
DecodeLoopPastEOF(stk, r, t, tgt) ==
    IF r.err = "EOF" THEN Wait(stk)
    ELSE IF r.err # "nil" THEN Done(tgt, r.err)
    ELSE IF r.tok.k = "start" THEN decodeElement(stk, t, tgt, r.tok)
    ELSE Wait(stk)

\* the loop of Decoder.Decode; tgt and t are the target's value and type
DecodeLoop(stk, r, t, tgt) ==
    IF r.err = "EOF" THEN Done(tgt, "nil")
    ELSE IF r.err # "nil" THEN Done(tgt, r.err)
    ELSE IF r.tok.k = "start" THEN decodeElement(stk, t, tgt, r.tok)
    ELSE Wait(stk)

\* the child loop of decodeStruct
StructLoop(stk, r) ==
    LET f == Top(stk)
        t == f.t
        chardataField == findChardataField(t)
        cdataField == findCDataField(t)
        anyField == findAnyField(t)
        commentField == findCommentField(t)
    IN IF r.err = "EOF" THEN Return(Pop(stk), f.val, "nil")
       ELSE IF r.err # "nil" THEN Return(Pop(stk), f.val, r.err)
       ELSE CASE r.tok.k = "start" ->
                LET pathFields == findAllPathFieldsWithPrefix(t, r.tok)
                    field == findFieldWithTag(t, r.tok)
                IN IF Len(pathFields) > 0
                   THEN Wait(Push(SetTop(stk, [f EXCEPT !.tok = r.tok, !.call = "path"]),
                                  PathFrame(t, f.val, pathFields)))
                   ELSE IF field = 0
                   THEN IF anyField # 0
                        THEN decodeAnyElement(
                                SetTop(stk, [f EXCEPT !.tok = r.tok, !.call = "field",
                                                      !.i = anyField]),
                                t.fields[anyField].type, f.val[anyField], r.tok)
                        ELSE Wait(Push(SetTop(stk, [f EXCEPT !.tok = r.tok, !.call = "skip"]),
                                       SkipFrame))
                   ELSE decodeElement(
                            SetTop(stk, [f EXCEPT !.tok = r.tok, !.call = "field", !.i = field]),
                            t.fields[field].type, f.val[field], r.tok)
              [] r.tok.k = "chardata" ->
                IF chardataField # 0 \/ cdataField # 0
                THEN Wait(SetTop(stk, [f EXCEPT !.chardata = @ \o r.tok.v]))
                ELSE Wait(stk)
              [] r.tok.k = "comment" ->
                IF commentField # 0
                THEN Wait(SetTop(stk, [f EXCEPT !.comments =
                        (IF Len(@) > 0 THEN @ \o <<"\n">> ELSE @) \o r.tok.v]))
                ELSE Wait(stk)
              [] r.tok.k = "end" ->
                LET v1 == IF chardataField # 0 /\ Len(f.chardata) > 0
                          THEN [f.val EXCEPT ![chardataField] = TrimSpace(f.chardata)]
                          ELSE IF cdataField # 0 /\ Len(f.chardata) > 0
                          THEN [f.val EXCEPT ![cdataField] = TrimSpace(f.chardata)]
                          ELSE f.val
                    v2 == IF commentField # 0 /\ Len(f.comments) > 0
                          THEN [v1 EXCEPT ![commentField] = TrimSpace(f.comments)]
                          ELSE v1
                IN Return(Pop(stk), v2, "nil")
              [] OTHER -> Wait(stk)

\* the innerxml loop of decodeStruct
InnerXMLLoop(stk, r) ==
    LET f == Top(stk)
        innerXMLField == findInnerXMLField(f.t)
    IN IF r.err = "EOF" THEN Return(Pop(stk), f.val, "nil")
       ELSE IF r.err # "nil" THEN Return(Pop(stk), f.val, r.err)
       ELSE CASE r.tok.k = "start" ->
                Wait(SetTop(stk, [f EXCEPT !.depth = @ + 1, !.buf = Append(@, r.tok)]))
              [] r.tok.k = "end" ->
                IF f.depth = 0
                THEN Return(Pop(stk),
                            IF \/ f.t.fields[innerXMLField].type.kind = "string"
                               \/ f.t.fields[innerXMLField].type = TSlice(TUint(8))
                            THEN [f.val EXCEPT ![innerXMLField] = f.buf]
                            ELSE f.val,
                            "nil")
                ELSE Wait(SetTop(stk, [f EXCEPT !.depth = @ - 1, !.buf = Append(@, r.tok)]))
              [] OTHER -> Wait(SetTop(stk, [f EXCEPT !.buf = Append(@, r.tok)]))

\* decodeMultiplePathFields returning an error at the end element when one of
\* its path fields was not found
PathLoopMissingIsError(stk, r) ==
    LET f == Top(stk)
    IN IF r.err = "EOF" THEN Return(Pop(stk), f.val, "nil")
       ELSE IF r.err # "nil" THEN Return(Pop(stk), f.val, r.err)
       ELSE CASE r.tok.k = "start" ->
                PathFor(SetTop(stk, [f EXCEPT !.tok = r.tok, !.i = 0,
                                              !.matchingFields = <<>>,
                                              !.matchingIndices = {},
                                              !.matchedAny = FALSE]), 1)
              [] r.tok.k = "end" ->
                Return(Pop(stk), f.val,
                       IF f.foundFields = 1..Len(f.pathFields) THEN "nil"
                       ELSE "path not found")
              [] OTHER -> Wait(stk)

\* the token loop of decodeMultiplePathFields
PathLoop(stk, r) ==
    LET f == Top(stk)
    IN IF r.err = "EOF" THEN Return(Pop(stk), f.val, "nil")
       ELSE IF r.err # "nil" THEN Return(Pop(stk), f.val, r.err)
       ELSE CASE r.tok.k = "start" ->
                PathFor(SetTop(stk, [f EXCEPT !.tok = r.tok, !.i = 0,
                                              !.matchingFields = <<>>,
                                              !.matchingIndices = {},
                                              !.matchedAny = FALSE]), 1)
              [] r.tok.k = "end" -> Return(Pop(stk), f.val, "nil")
              [] OTHER -> Wait(stk)

\* the value a primitive decoder stores at the end element, and its error
PrimSet(f) ==
    LET str == TrimSpace(f.s)
    IN CASE f.k = "decodeString" -> [val |-> str, err |-> "nil"]
         [] f.k = "decodeBool" -> [val |-> (str = sTrue), err |-> "nil"]
         [] f.k = "decodeInt" ->
                IF ParseIntOk(str)
                THEN [val |-> WrapInt(ParseIntVal(str), f.t.bits), err |-> "nil"]
                ELSE [val |-> f.val, err |-> "failed to parse integer"]
         [] f.k = "decodeUint" ->
                IF ParseUintOk(str)
                THEN [val |-> WrapUint(ParseUintVal(str), f.t.bits), err |-> "nil"]
                ELSE [val |-> f.val, err |-> "failed to parse unsigned integer"]

\* the loop of decodeString, decodeBool, decodeInt and decodeUint
PrimLoop(stk, r) ==
    LET f == Top(stk)
    IN IF r.err = "EOF" THEN Return(Pop(stk), f.val, "nil")
       ELSE IF r.err # "nil" THEN Return(Pop(stk), f.val, r.err)
       ELSE CASE r.tok.k = "chardata" -> Wait(SetTop(stk, [f EXCEPT !.s = @ \o r.tok.v]))
              [] r.tok.k = "end" -> Return(Pop(stk), PrimSet(f).val, PrimSet(f).err)
              [] OTHER -> Wait(stk)

\* the loop of xml.Decoder.Skip
SkipLoop(stk, r) ==
    LET f == Top(stk)
    IN IF r.err # "nil" THEN Return(Pop(stk), <<>>, r.err)
       ELSE CASE r.tok.k = "start" -> Wait(SetTop(stk, [f EXCEPT !.depth = @ + 1]))
              [] r.tok.k = "end" ->
                IF f.depth = 0 THEN Return(Pop(stk), <<>>, "nil")
                ELSE Wait(SetTop(stk, [f EXCEPT !.depth = @ - 1]))
              [] OTHER -> Wait(stk)

(***************************************************************************)
(* The documents, record types and namespace contexts of the model         *)
(***************************************************************************)
nsU == <<"U">>
nsP == <<"P">>
\* a URI that is the literal prefix q, as xml.Decoder gives for an undeclared prefix
nsQ == <<"q">>
nsNone == <<>>

\* a value of type t that differs from Zero(t) wherever it can
RECURSIVE Prior(_)
Prior(t) ==
    CASE t.kind = "string" -> <<"o">>
      [] t.kind = "bool" -> TRUE
      [] t.kind \in {"int", "uint", "float64"} -> 1
      [] t.kind \in {"ptr", "slice"} -> <<Prior(t.elem)>>
      [] t.kind = "struct" -> [i \in 1..Len(t.fields) |-> Prior(t.fields[i].type)]
      [] t.kind = "xml.Attr" -> Attr(<<>>, <<"o">>, <<"o">>)
      [] OTHER -> <<>>

\* start elements, by name
eN == StartElement(nsU, <<"n">>, <<>>)
eN0 == StartElement(nsNone, <<"n">>, <<>>)
eB == StartElement(nsP, <<"b">>, <<>>)
eBq == StartElement(nsQ, <<"b">>, <<>>)
eC == StartElement(nsU, <<"c">>, <<>>)
eW == StartElement(nsU, <<"w">>, <<>>)
eZ == StartElement(nsU, <<"z">>, <<>>)
eWa(attr) == StartElement(nsU, <<"w">>, attr)

tagI == <<"i", ",", "a", "t", "t", "r">>

\* elements: default namespace, declared prefix p, undeclared prefix q
TElems ==
    TStruct(<< Field(<<"n">>, TString),
               Field(<<"p", ":", "b">>, TString),
               Field(<<"q", ":", "b">>, TString) >>)

\* attributes: unprefixed, declared prefix p, undeclared prefix q
TAttrs ==
    TStruct(<< Field(tagI, TString),
               Field(<<"p", ":", "k", ",", "a", "t", "t", "r">>, TUint(8)),
               Field(<<"q", ":", "k", ",", "a", "t", "t", "r">>, TString) >>)

TAnyAttr ==
    TStruct(<< Field(sAnyAttr, TSlice(TAttr)),
               Field(tagI, TString),
               Field(<<"q", ":", "k", ",", "a", "t", "t", "r">>, TString) >>)

TLeaf ==
    TStruct(<< Field(<<"c">>, TUint(8)),
               Field(tagI, TInt(8)),
               Field(<<"q", ":", "k", ",", "a", "t", "t", "r">>, TString) >>)

\* a direct integer, a pointer to a nested struct, an unsupported kind
TNest ==
    TStruct(<< Field(<<"c">>, TInt(8)),
               Field(<<"w">>, TPtr(TLeaf)),
               Field(<<"z">>, TFloat) >>)

\* sequences and pointers of primitives
TSeq ==
    TStruct(<< Field(<<"c">>, TSlice(TInt(8))),
               Field(<<"n">>, TPtr(TBool)) >>)

TPaths ==
    TStruct(<< Field(<<"w", ">", "n">>, TString),
               Field(<<"w", ">", "p", ":", "b", ">", "c">>, TInt(8)),
               Field(<<"w", ">", "c">>, TPtr(TUint(8))) >>)

TAnySlice ==
    TStruct(<< Field(<<"n">>, TString),
               Field(sAny, TSlice(TInt(8))) >>)

TAnyPtr ==
    TStruct(<< Field(<<"n">>, TString),
               Field(sAny, TPtr(TLeaf)) >>)

TText ==
    TStruct(<< Field(<<",">> \o sChardata, TString),
               Field(<<",">> \o sComment, TString),
               Field(<<"n">>, TString) >>)

\* a record that keeps only the raw content of its element
TRaw == TStruct(<< Field(<<",">> \o sInnerxml, TString) >>)

TInner ==
    TStruct(<< Field(<<",">> \o sInnerxml, TString),
               Field(tagI, TString) >>)

\* both text fields, in the two declaration orders
TCharFirst ==
    TStruct(<< Field(<<",">> \o sChardata, TString),
               Field(<<",">> \o sCdata, TString) >>)

TCDataFirst ==
    TStruct(<< Field(<<",">> \o sCdata, TString),
               Field(<<",">> \o sChardata, TString) >>)

\* fields the decoder is to leave alone: no tag, the tag "-", and two fields
\* for namespace declarations; n is an ordinary element
TSkip ==
    TStruct(<< Field(<<>>, TString),
               Field(sDash, TString),
               Field(sXmlns \o <<",">> \o sAttr, TString),
               Field(sXmlns \o <<":">> \o sComment \o <<",">> \o sAttr, TString),
               Field(<<"n">>, TString) >>)

\* an element field, a path field with the same first segment, a catch-all
\* two path fields with one and the same path
TTwin ==
    TStruct(<< Field(<<"w", ">", "c">>, TString),
               Field(<<"w", ">", "c">>, TString) >>)

TPrio ==
    TStruct(<< Field(<<"w">>, TString),
               Field(<<"w", ">", "n">>, TSlice(TString)),
               Field(sAny, TSlice(TString)) >>)

\* two prefixes of the same URI, and the same unprefixed name twice
TFirst ==
    TStruct(<< Field(<<"r", ":", "b">>, TString),
               Field(<<"p", ":", "b">>, TString),
               Field(<<"n">>, TString),
               Field(<<"n">>, TString) >>)

\* an element named comment, without modifier
TRole ==
    TStruct(<< Field(sComment, TString),
               Field(<<"n">>, TString) >>)

ctxFull == (<<>> :> nsU) @@ (<<"p">> :> nsP)
ctxNoDefault == (<<"p">> :> nsP)
ctxDefaultOnly == (<<>> :> nsU)
ctxEmpty == <<>>
\* the prefixes p and r stand for the same URI
ctxAlias == (<<>> :> nsU) @@ (<<"p">> :> nsP) @@ (<<"r">> :> nsP)

aI7 == <<Attr(nsNone, <<"i">>, <<"7">>)>>
aIx == <<Attr(nsNone, <<"i">>, <<"x">>)>>
aK7 == <<Attr(nsP, <<"k">>, <<"7">>)>>
aKx == <<Attr(nsP, <<"k">>, <<"x">>)>>
aQk == <<Attr(nsQ, <<"k">>, <<"7">>)>>
\* xmlns:p="P" and xmlns:i="P": the same binding under two literal prefixes
aDeclP == <<Attr(sXmlns, <<"p">>, nsP)>>
aDeclI == <<Attr(sXmlns, <<"i">>, nsP)>>

\* xmlns="U" xmlns:comment="P"
aDeclDefault == <<Attr(nsNone, sXmlns, nsU), Attr(sXmlns, sComment, nsP)>>
eXmlns == StartElement(nsU, sXmlns, <<>>)
eComment == StartElement(nsU, sComment, <<>>)

\* the start elements, texts and comments of the documents decoded into type t
StartsOf(t) ==
    CASE t = TElems -> {eN, eN0, eB, eBq, eZ}
      [] t = TAttrs -> {eW, eWa(aI7), eWa(aK7), eWa(aKx), eWa(aQk), eWa(aDeclP), eWa(aDeclI)}
      [] t = TAnyAttr -> {eW, eWa(aI7), eWa(aDeclP), eWa(aDeclI), eWa(aDeclP \o aI7)}
      [] t = TNest -> {eC, eW, eWa(aI7), eWa(aIx), eWa(aQk), eZ}
      [] t = TSeq -> {eC, eN, eZ}
      [] t = TPaths -> {eW, eN, eB, eC, eZ}
      [] t = TAnySlice -> {eN, eZ}
      [] t = TAnyPtr -> {eN, eN0, eWa(aIx), eC}
      [] t = TText -> {eN, eZ}
      [] t = TInner -> {eWa(aI7), eN}
      [] t \in {TCharFirst, TCDataFirst} -> {eZ}
      [] t = TSkip -> {eWa(aDeclDefault), eXmlns, eN}
      [] t = TPrio -> {eW, eN}
      [] t = TFirst -> {eB, eN}
      [] t = TRole -> {eComment, eN}
      [] t = TTwin -> {eW, eC}
      [] t = TRaw -> {eN}

TextsOf(t) ==
    CASE t \in {TElems, TText} -> { <<"x">>, <<" ">> }
      [] t \in {TAttrs, TAnyAttr, TInner, TCharFirst, TCDataFirst, TSkip,
                TPrio, TFirst, TRole, TTwin, TRaw} -> { <<"x">> }
      [] t = TSeq -> { <<"7">>, <<"-">>, sTrue }
      [] OTHER -> { <<"7">>, <<"x">> }

CommentsOf(t) == IF t \in {TText, TSkip, TRole} THEN { <<"m">> } ELSE {}

\* the decode calls of the model: type, context, value of the target before
Scenarios ==
    { <<TElems, ns, tgt>> : ns \in {ctxFull, ctxNoDefault, ctxEmpty},
                            tgt \in {Zero(TElems), Prior(TElems)} }
    \cup { <<TAttrs, ns, Zero(TAttrs)>> : ns \in {ctxFull, ctxEmpty} }
    \cup { <<TPaths, ctxDefaultOnly, Zero(TPaths)>> }
    \cup { <<TAnyAttr, ctxFull, Prior(TAnyAttr)>> }
    \cup { <<TSkip, ctxFull, Prior(TSkip)>> }
    \cup { <<TFirst, ctxAlias, Zero(TFirst)>> }
    \cup { <<t, ctxFull, Zero(t)>> :
              t \in {TAnyAttr, TNest, TSeq, TPaths, TAnySlice, TAnyPtr, TText, TInner,
                     TCharFirst, TCDataFirst, TPrio, TRole, TTwin} }

(***************************************************************************)
(* xml.Decoder.Token: what the next call can return                        *)
(***************************************************************************)
NextTokens ==
    (IF ntok < MaxTokens
     THEN (IF depth < MaxDepth THEN StartsOf(rtype) ELSE {})
          \cup { CharData(v) : v \in TextsOf(rtype) }
          \cup { Comment(v) : v \in CommentsOf(rtype) }
          \cup (IF depth = 0 /\ ntok = 0 THEN {ProcInst} ELSE {})
     ELSE {})
    \cup (IF depth > 0 THEN {EndElement} ELSE {})

Read(e, tok) == [err |-> e, tok |-> tok]

\* io.EOF is returned only outside every element; inside an element the end
\* of the input is a syntax error ("unexpected EOF").  An error is sticky.
Reads ==
    IF srcErr # "nil" THEN { Read(srcErr, EndElement) }
    ELSE { Read("nil", tok) : tok \in NextTokens }
         \cup { Read("syntax error", EndElement) }
         \cup (IF depth = 0 THEN { Read("EOF", EndElement) } ELSE {})

\* the token source after returning r
Consume(r) ==
    /\ srcErr' = r.err
    /\ depth' = IF r.err # "nil" THEN depth
                ELSE IF r.tok.k = "start" THEN depth + 1
                ELSE IF r.tok.k = "end" THEN depth - 1
                ELSE depth
    /\ ntok' = IF r.err = "nil" /\ r.tok.k \in {"start", "chardata", "comment", "procinst"}
               THEN ntok + 1 ELSE ntok

(***************************************************************************)
(* The rules of matching as the specification words them                   *)
(***************************************************************************)
HasColon(name) == \E i \in 1..Len(name) : name[i] = ":"
\* prefix and local part of a descriptor name; an unprefixed name has prefix <<>>
PrefixOf(name) == IF HasColon(name) THEN SubSeq(name, 1, IndexOf(name, ":") - 1) ELSE <<>>
LocalOf(name) ==
    IF HasColon(name) THEN SubSeq(name, IndexOf(name, ":") + 1, Len(name)) ELSE name

\* an element descriptor name matches the identity of a start element
ElementRule(name, start) ==
    /\ LocalOf(name) = start.name.local
    /\ IF HasColon(name)
       THEN /\ PrefixOf(name) \in DOMAIN namespaces
            /\ namespaces[PrefixOf(name)] = start.name.space
       ELSE \/ <<>> \in DOMAIN namespaces /\ start.name.space = namespaces[<<>>]
            \/ <<>> \notin DOMAIN namespaces /\ start.name.space = <<>>

\* an attribute descriptor name matches an attribute
AttributeRule(name, a) ==
    /\ LocalOf(name) = a.name.local
    /\ HasColon(name) =>
          /\ PrefixOf(name) \in DOMAIN namespaces
          /\ namespaces[PrefixOf(name)] = a.name.space

\* the prefix of the name is not a key of the context
InertName(name) == HasColon(name) /\ PrefixOf(name) \notin DOMAIN namespaces

\* the name of a descriptor (the tag up to its first comma) has an inert segment
InertTag(tag) ==
    \E segs \in {Split(TagName(tag), ">")} : \E i \in 1..Len(segs) : InertName(segs[i])

\* the element and path descriptors of a record type: a name and no modifier
ElemFields(t) ==
    { i \in 1..Len(t.fields) :
        /\ t.fields[i].tag \notin {<<>>, sDash}
        /\ ~Contains(t.fields[i].tag, <<",">>) }

\* the attribute descriptors of a record type: a name and the modifier attr
AttrFields(t) ==
    { i \in 1..Len(t.fields) :
        \E parts \in {Split(t.fields[i].tag, ",")} :
            Len(parts) = 2 /\ parts[1] # <<>> /\ parts[2] = sAttr }

\* the element descriptors whose first segment matches the start element
Matching(t, start) ==
    { i \in ElemFields(t) : ElementRule(FirstSegment(t.fields[i].tag), start) }

\* the element has the local name of the descriptor name but not the URI the
\* context gives for its prefix
WrongURI(name, start) ==
    /\ LocalOf(name) = start.name.local
    /\ PrefixOf(name) \in DOMAIN namespaces
    /\ namespaces[PrefixOf(name)] # start.name.space

\* every start element and attribute list of the documents of the model
AllStarts == UNION { StartsOf(sc[1]) : sc \in Scenarios }
AllAttrs == UNION { { e.attr[i] : i \in 1..Len(e.attr) } : e \in AllStarts }
AllNames ==
    UNION { { FirstSegment(TagName(sc[1].fields[i].tag)) : i \in 1..Len(sc[1].fields) }
            : sc \in Scenarios }
    \cup { <<"p", ":", "n">>, <<"q", ":", "n">>, <<"b">>, <<"k">> }

\* frame k of the stack is a decodeStruct loop waiting for the handling of the
\* start element it read
Pending(k) == stack[k].k = "decodeStruct" /\ stack[k].call # "none"

(***************************************************************************)
(* History of the document read so far, for the path descriptors           *)
(***************************************************************************)
\* the path descriptors of a record type and their segments
PathFields(t) == { i \in ElemFields(t) : Contains(t.fields[i].tag, <<">">>) }
SegmentsOf(t, i) == Split(t.fields[i].tag, ">")

\* the names of nested elements match the first segments of the path field i
AlongPath(t, i, names) ==
    /\ Len(SegmentsOf(t, i)) >= Len(names)
    /\ \A j \in 1..Len(names) : ElementRule(SegmentsOf(t, i)[j], [name |-> names[j]])

\* the path fields whose whole path the names match: the last name is a leaf
LeafOf(t, names) ==
    { i \in PathFields(t) : AlongPath(t, i, names) /\ Len(SegmentsOf(t, i)) = Len(names) }

\* open: the names of the open elements, from the child of the root inwards,
\* while they follow a path; text: the text of the open leaf; entered: every
\* sequence of names open has held; got: the leaves that ended, with their
\* text; sibling: an element off every path was met where a path element could
\* be; plain: no leaf, and no child of the root that goes to the any field, had
\* a child element, and no sequence was entered twice
NoDoc ==
    [open |-> <<>>, text |-> <<>>, entered |-> {}, got |-> {}, sibling |-> FALSE,
     plain |-> TRUE]

\* the history after the token source returned r
Watch(r) ==
    IF r.err # "nil" \/ depth = 0 \/ PathFields(rtype) = {}
    THEN doc
    ELSE IF depth - 1 # Len(doc.open)
    THEN IF r.tok.k = "start" /\ doc.open = <<>> /\ findAnyField(rtype) # 0
         THEN [doc EXCEPT !.plain = FALSE]
         ELSE doc
    ELSE CASE r.tok.k = "start" ->
                IF LeafOf(rtype, doc.open) # {} THEN [doc EXCEPT !.plain = FALSE]
                ELSE IF \E i \in PathFields(rtype) :
                            AlongPath(rtype, i, Append(doc.open, r.tok.name))
                THEN [doc EXCEPT !.open = Append(@, r.tok.name),
                                 !.text = <<>>,
                                 !.entered = @ \cup {Append(doc.open, r.tok.name)},
                                 !.plain = @ /\ Append(doc.open, r.tok.name) \notin doc.entered]
                ELSE [doc EXCEPT !.sibling = TRUE]
           [] r.tok.k = "chardata" /\ LeafOf(rtype, doc.open) # {} ->
                [doc EXCEPT !.text = @ \o r.tok.v]
           [] r.tok.k = "end" /\ doc.open # <<>> ->
                [doc EXCEPT !.open = SubSeq(@, 1, Len(@) - 1),
                            !.text = <<>>,
                            !.got = @ \cup { [field |-> i, text |-> doc.text] :
                                             i \in LeafOf(rtype, doc.open) }]
           [] OTHER -> doc

\* the errors of converting text to a target type
CoercionErrors ==
    {"failed to parse integer", "failed to parse unsigned integer",
     "unsupported type", "unsupported field type"}

\* decodeAnyElement is holding an error of decodeElement it will not return
Swallowed(stk) ==
    \E i \in 1..Len(stk) :
        stk[i].k = "decodeAnyElement" /\ stk[i].mode = "skip" /\ stk[i].e \in CoercionErrors

\* what the step that read r and ran to outcome m adds to the history
Observe(r, m) ==
    (IF r.err = "nil" /\ r.tok.k = "start" THEN {"start"} ELSE {})
    \cup (IF r.err = "EOF" /\ Len(stack) > 1 THEN {"eof in open frame"} ELSE {})
    \cup (IF (m.done /\ m.err \in CoercionErrors) \/ Swallowed(m.stack)
          THEN {"coercion failure"} ELSE {})

NoSnap == [on |-> FALSE, tok |-> NoToken, stack |-> <<>>, depth |-> 0]

\* the element of the snapshot is still open
SnapOpen == snap.on /\ depth > snap.depth

\* the decoder after reading r and running to outcome m; take says whether the
\* history keeps the state before this step as the snapshot
Become(r, m, take) ==
    /\ stack' = m.stack
    /\ status' = IF m.done THEN "done" ELSE "run"
    /\ err' = m.err
    /\ target' = IF m.done THEN m.val ELSE target
    /\ events' = events \cup Observe(r, m)
    /\ snap' = IF take THEN [on |-> TRUE, tok |-> r.tok, stack |-> stack, depth |-> depth]
               ELSE IF SnapOpen THEN snap
               ELSE NoSnap
    /\ doc' = Watch(r)
    /\ UNCHANGED <<namespaces, rv, rtype, prior>>

\* what the model passes to Decode for the type t
TargetsOf(t) == IF t = TElems THEN {"ptr", "nil", "value"} ELSE {"ptr"}

\* the state before the call of Decode, for the scenarios of S
InitOf(S) ==
    /\ \E sc \in S :
          /\ rtype = sc[1] /\ namespaces = sc[2] /\ target = sc[3] /\ prior = sc[3]
          /\ rv \in TargetsOf(sc[1])
    /\ stack = <<>>
    /\ status = "call"
    /\ err = "nil"
    /\ depth = 0
    /\ ntok = 0
    /\ srcErr = "nil"
    /\ events = {}
    /\ snap = NoSnap
    /\ doc = NoDoc

Init == InitOf(Scenarios)

\* the scenarios of the termination check: a sequence and a pointer, a path
\* group, an any field with a nested record, a raw subtree, and primitives of
\* every kind
FairScenarios ==
    { <<t, ctxFull, Zero(t)>> : t \in {TSeq, TTwin, TAnyPtr, TRaw} }

FairInit == InitOf(FairScenarios)

Running(k) == status = "run" /\ Top(stack).k = k

\* rv.Kind() != reflect.Pointer || rv.IsNil() accepting every pointer
ValidTargetAnyPointer(v) == v \in {"ptr", "nil"}

\* the negation of rv.Kind() != reflect.Pointer || rv.IsNil()
ValidTarget(v) == v = "ptr"

\* Decoder.Decode is called and checks its target
DecodeCall ==
    /\ status = "call"
    /\ IF ValidTarget(rv)
       THEN /\ stack' = <<DecodeFrame>>
            /\ status' = "run"
            /\ err' = "nil"
       ELSE /\ stack' = <<>>
            /\ status' = "done"
            /\ err' = "decode target must be a non-nil pointer"
    /\ UNCHANGED <<namespaces, rv, rtype, target, depth, ntok, srcErr, prior, events, snap, doc>>

\* Decoder.Decode reads a token
Decode ==
    /\ Running("Decode")
    /\ \E r \in Reads : \E m \in {DecodeLoop(stack, r, rtype, target)} :
          Consume(r) /\ Become(r, m, FALSE)

\* the history may take a snapshot when a decodeStruct loop reads a start
\* element outside the element of the current snapshot
Takes(r) ==
    IF r.err = "nil" /\ r.tok.k = "start" /\ ~SnapOpen THEN BOOLEAN ELSE {FALSE}

\* decodeStruct reads a token in its child loop
DecodeStruct ==
    /\ Running("decodeStruct")
    /\ \E r \in Reads : \E m \in {StructLoop(stack, r)} : \E take \in Takes(r) :
          Consume(r) /\ Become(r, m, take)

\* decodeStruct reads a token in its innerxml loop
DecodeStructInnerXML ==
    /\ Running("innerxml")
    /\ \E r \in Reads : \E m \in {InnerXMLLoop(stack, r)} : Consume(r) /\ Become(r, m, FALSE)

\* decodeMultiplePathFields reads a token
DecodeMultiplePathFields ==
    /\ Running("decodeMultiplePathFields")
    /\ \E r \in Reads : \E m \in {PathLoop(stack, r)} : Consume(r) /\ Become(r, m, FALSE)

DecodeString ==
    /\ Running("decodeString")
    /\ \E r \in Reads : \E m \in {PrimLoop(stack, r)} : Consume(r) /\ Become(r, m, FALSE)

DecodeBool ==
    /\ Running("decodeBool")
    /\ \E r \in Reads : \E m \in {PrimLoop(stack, r)} : Consume(r) /\ Become(r, m, FALSE)

DecodeInt ==
    /\ Running("decodeInt")
    /\ \E r \in Reads : \E m \in {PrimLoop(stack, r)} : Consume(r) /\ Become(r, m, FALSE)

DecodeUint ==
    /\ Running("decodeUint")
    /\ \E r \in Reads : \E m \in {PrimLoop(stack, r)} : Consume(r) /\ Become(r, m, FALSE)

\* xml.Decoder.Skip reads a token
Skip ==
    /\ Running("Skip")
    /\ \E r \in Reads : \E m \in {SkipLoop(stack, r)} : Consume(r) /\ Become(r, m, FALSE)

Next ==
    \/ DecodeCall
    \/ Decode
    \/ DecodeStruct
    \/ DecodeStructInnerXML
    \/ DecodeMultiplePathFields
    \/ DecodeString
    \/ DecodeBool
    \/ DecodeInt
    \/ DecodeUint
    \/ Skip

Spec == Init /\ [][Next]_vars

\* Decode runs in one goroutine that is never suspended for ever: a call that
\* can read its next token does so
FairSpec == FairInit /\ [][Next]_vars /\ WF_vars(Next)

(***************************************************************************)
(* C1                                                                      *)
(***************************************************************************)
\* one iteration of the token loop of the innermost frame of stk
Loop(stk, r) ==
    CASE Top(stk).k = "Decode" -> DecodeLoop(stk, r, rtype, target)
      [] Top(stk).k = "decodeStruct" -> StructLoop(stk, r)
      [] Top(stk).k = "innerxml" -> InnerXMLLoop(stk, r)
      [] Top(stk).k = "decodeMultiplePathFields" -> PathLoop(stk, r)
      [] Top(stk).k = "Skip" -> SkipLoop(stk, r)
      [] OTHER -> PrimLoop(stk, r)

\* the attribute is a namespace declaration: xmlns:prefix="uri" or xmlns="uri"
IsDecl(a) == a.name.space = sXmlns \/ (a.name.space = <<>> /\ a.name.local = sXmlns)
NotDecl(a) == ~IsDecl(a)
DeclaredURIs(attrs) == { attrs[i].value : i \in { j \in 1..Len(attrs) : IsDecl(attrs[j]) } }

\* two start elements of the same identity and the same attributes that bind
\* the same URIs under different literal prefixes
PrefixVariants(t1, t2) ==
    /\ t1.name = t2.name
    /\ SelectSeq(t1.attr, NotDecl) = SelectSeq(t2.attr, NotDecl)
    /\ DeclaredURIs(t1.attr) = DeclaredURIs(t2.attr)

\* the decoded values and the error of two outcomes are the same
SameDecoded(m1, m2) ==
    /\ m1.done = m2.done
    /\ m1.err = m2.err
    /\ Len(m1.stack) = Len(m2.stack)
    /\ \A i \in 1..Len(m1.stack) : m1.stack[i].k = m2.stack[i].k
    /\ m1.done => m1.val = m2.val
    /\ \A i \in 1..Len(m1.stack) :
          "val" \in DOMAIN m1.stack[i] => m1.stack[i].val = m2.stack[i].val

\* C1: prefix independence.  Wherever the decoder stands, two documents that go on
\* with start elements of the same resolved identity and attributes and differ
\* only in the literal prefixes of their namespace declarations are decoded to
\* the same values and the same error outcome.
C1_PrefixIndependence ==
    (status = "run" /\ srcErr = "nil") =>
        \A t1 \in StartsOf(rtype) : \A t2 \in StartsOf(rtype) :
            PrefixVariants(t1, t2) =>
                SameDecoded(Loop(stack, Read("nil", t1)), Loop(stack, Read("nil", t2)))

(***************************************************************************)
(* C2                                                                      *)
(***************************************************************************)
\* the frame that read the start element of the snapshot is back in its loop
\* after the end of that element
FrameBack ==
    /\ status = "run"
    /\ depth = snap.depth
    /\ Len(stack) = Len(snap.stack)
    /\ Pop(stack) = Pop(snap.stack)
    /\ Top(stack).k = "decodeStruct"

\* while the element of the snapshot is open xml.Decoder.Skip is consuming it
\* for the frame that read it, and the frame holds the values it held
BeingSkipped ==
    /\ Len(stack) = Len(snap.stack) + 1
    /\ stack[Len(snap.stack)] =
          [Top(snap.stack) EXCEPT !.tok = snap.tok, !.call = "skip"]
    /\ Pop(Pop(stack)) = Pop(snap.stack)
    /\ Top(stack) = [SkipFrame EXCEPT !.depth = depth - snap.depth - 1]

FilledByMatching(t, i) ==
    i \notin {findChardataField(t), findCDataField(t), findCommentField(t),
              findInnerXMLField(t)}

InertUntouched(f) ==
    \A i \in 1..Len(f.t.fields) :
        (InertTag(f.t.fields[i].tag) /\ FilledByMatching(f.t, i)) =>
            f.val[i] \in {Zero(f.t.fields[i].type), Prior(f.t.fields[i].type)}

\* C3: a descriptor (element, path segment or attribute) whose prefix is not a
\* key of the context never matches: under the context of the call matchesField
\* and matchesAttribute reject it for every identity, no frame hands an element
\* to its field, and its field holds the value it held before the call, in the
\* frame that is reading and in the target Decode returns (a field the record
\* keeps its text, comments or raw content in is written without matching).
C3_UndeclaredPrefixInert ==
    /\ ntok = 0 =>
          \A name \in AllNames : InertName(name) =>
              /\ \A e \in AllStarts : ~matchesField(name, e.name.local, e.name.space)
              /\ \A a \in AllAttrs : ~matchesAttribute(name, a)
    /\ ( /\ status = "run"
         /\ Top(stack).k \in {"decodeStruct", "innerxml", "decodeMultiplePathFields"} ) =>
          InertUntouched(Top(stack))
    /\ \A k \in 1..Len(stack) :
          /\ (Pending(k) /\ stack[k].call = "field") =>
                ~InertTag(stack[k].t.fields[stack[k].i].tag)
          /\ (stack[k].k = "decodeMultiplePathFields" /\ stack[k].call = "field") =>
                ~InertTag(stack[k].pathFields[stack[k].i].tag)
    /\ status = "done" =>
          \A i \in 1..Len(rtype.fields) :
              (InertTag(rtype.fields[i].tag) /\ FilledByMatching(rtype, i))
                  => target[i] = prior[i]

\* C3, witness: the element b whose URI is the literal prefix q was read by a
\* record with the descriptor q:b, q not being a key of the context, and has
\* ended with the field as it was before the call
C3_Witness ==
    /\ rtype = TElems
    /\ <<"q">> \notin DOMAIN namespaces
    /\ prior[3] # <<>>
    /\ snap.on
    /\ snap.tok = eBq
    /\ status = "run"
    /\ depth = snap.depth
    /\ Top(stack).k = "decodeStruct"
    /\ Top(stack).val[3] = prior[3]

(***************************************************************************)
(* C4                                                                      *)
(***************************************************************************)
\* C4: matchesField is the rule of the specification: an unprefixed name N matches
\* (local, uri) iff local = N and uri is the context's "" entry, or is empty when
\* the context has none; a prefixed name p:N matches iff context[p] is defined,
\* equals uri, and local = N.  A decodeStruct frame hands an element to the field
\* of an element descriptor only if the rule holds for it, and skips it or hands
\* it to the AnyElement field only if the rule holds for no element descriptor.
C4_ElementMatching ==
    /\ ntok = 0 =>
          \A name \in AllNames : \A e \in AllStarts :
              matchesField(name, e.name.local, e.name.space) <=> ElementRule(name, e)
    /\ \A k \in 1..Len(stack) :
          /\ Pending(k) =>
                IF stack[k].call = "field" /\ stack[k].i \in ElemFields(stack[k].t)
                THEN stack[k].i \in Matching(stack[k].t, stack[k].tok)
                ELSE IF stack[k].call = "path"
                THEN Matching(stack[k].t, stack[k].tok) # {}
                ELSE Matching(stack[k].t, stack[k].tok) = {}
          /\ (stack[k].k = "decodeMultiplePathFields" /\ stack[k].call = "field") =>
                ElementRule(Split(stack[k].pathFields[stack[k].i].tag, ">")[2], stack[k].tok)

\* C4, witness: under a context without "" entry the unprefixed descriptor n was
\* given the element n of no namespace, after the element n of the namespace U
\* had been skipped
C4_Witness ==
    /\ <<>> \notin DOMAIN namespaces
    /\ <<"p">> \in DOMAIN namespaces
    /\ Len(stack) >= 2
    /\ Pending(2)
    /\ stack[2].call = "field"
    /\ stack[2].t.fields[stack[2].i].tag = <<"n">>
    /\ stack[2].tok = eN0
    /\ ntok >= 3

(***************************************************************************)
(* C5                                                                      *)
(***************************************************************************)
\* the attribute lists of the start elements of the model
AllAttrLists == { e.attr : e \in AllStarts }

\* what decodeAttributes gives the attribute field i of a zero record of type t:
\* the value of the first attribute the rule accepts
AttrExpected(t, attrs, i) ==
    IF \E a \in 1..Len(attrs) : AttributeRule(TagName(t.fields[i].tag), attrs[a])
    THEN setFieldValue(t.fields[i].type, Zero(t.fields[i].type),
             attrs[FirstIdx({ a \in 1..Len(attrs) :
                        AttributeRule(TagName(t.fields[i].tag), attrs[a]) })].value).val
    ELSE Zero(t.fields[i].type)

\* C5: matchesAttribute is the rule of the specification: an unprefixed attribute
\* descriptor N matches every attribute of local name N, whatever its namespace and
\* whether or not the context has a "" entry; a prefixed p:N matches iff context[p]
\* is defined, equals the attribute's URI, and the local name is N.  decodeAttributes
\* gives each attribute field the first attribute the rule accepts.
C5_AttributeMatching ==
    ntok = 0 =>
        /\ \A name \in AllNames : \A a \in AllAttrs :
              matchesAttribute(name, a) <=> AttributeRule(name, a)
        /\ \A t \in {TAttrs, TLeaf, TAnyAttr} : \A attrs \in AllAttrLists :
              \E r \in {decodeAttributes(t, Zero(t), attrs)} :
                  r.err = "nil" =>
                      \A i \in AttrFields(t) : r.val[i] = AttrExpected(t, attrs, i)

\* C5, witness: under a context with a "" entry the unprefixed descriptor i took
\* the attribute xmlns:i, whose namespace is not that entry
C5_Witness ==
    /\ <<>> \in DOMAIN namespaces
    /\ rtype = TAttrs
    /\ Len(stack) >= 2
    /\ stack[2].k = "decodeStruct"
    /\ stack[2].val[1] = nsP

(***************************************************************************)
(* C6                                                                      *)
(***************************************************************************)
\* the stack is the one of the snapshot, but for the value of the AnyElement field
SameKnown ==
    /\ Len(stack) = Len(snap.stack)
    /\ Pop(stack) = Pop(snap.stack)
    /\ Top(stack).k = "decodeStruct"
    /\ Top(stack).call = "none"
    /\ Top(stack).chardata = Top(snap.stack).chardata
    /\ Top(stack).comments = Top(snap.stack).comments
    /\ \A i \in 1..Len(Top(stack).t.fields) :
          i # findAnyField(Top(stack).t) => Top(stack).val[i] = Top(snap.stack).val[i]

\* C6: skip is silent.  An element that matches no descriptor of the record whose
\* frame reads it raises no error, and once it has ended the frame goes on with
\* the values of its known fields as they were.
C6_SkipIsSilent ==
    ( /\ snap.on
      /\ Matching(Top(snap.stack).t, snap.tok) = {}
      /\ srcErr = "nil" ) =>
        /\ status = "run"
        /\ depth = snap.depth => SameKnown

(***************************************************************************)
(* C7                                                                      *)
(***************************************************************************)
RECURSIVE Opened(_)
\* the number of elements the frames of stk are inside of, by their own count
Opened(stk) ==
    IF Len(stk) = 0 THEN 0
    ELSE Opened(Pop(stk))
         + (CASE Top(stk).k \in {"decodeStruct", "decodeMultiplePathFields", "decodeString",
                                 "decodeBool", "decodeInt", "decodeUint"} -> 1
              [] Top(stk).k \in {"innerxml", "Skip"} -> 1 + Top(stk).depth
              [] OTHER -> 0)

\* C7: frame termination.  When an end element is read, the frames that remain are
\* those of the elements still open: a frame ends on the end element of its own
\* start element and on no other, and Decode returns without error only on the
\* end of the root element.
C7_FrameTermination ==
    [][ depth' = depth - 1 =>
            IF status' = "run" THEN Opened(stack') = depth'
            ELSE err' # "nil" \/ depth' = 0 ]_vars

(***************************************************************************)
(* C8                                                                      *)
(***************************************************************************)
\* C8: a coercion failure is fatal.  Once text failed to convert to an integer
\* target, or a target of an unsupported kind was met, Decode returns an error.
C8_CoercionFatal ==
    (status = "done" /\ "coercion failure" \in events) => err # "nil"

(***************************************************************************)
(* C9                                                                      *)
(***************************************************************************)
\* C9: premature end of stream.  Once the token source reported the end of the
\* stream to an open frame, Decode returns an error.
C9_PrematureEOF ==
    (status = "done" /\ "eof in open frame" \in events) => err # "nil"

(***************************************************************************)
(* C10                                                                     *)
(***************************************************************************)
\* C10: root entry.  Until the first start element Decode only reads on, its
\* target untouched; the first start element, whatever its name, starts the
\* decoding of the root target; the end of the stream before any start element
\* makes Decode return nil with the target as it was before the call.
C10_RootEntry ==
    /\ (status = "run" /\ "start" \notin events) =>
          stack = <<DecodeFrame>> /\ target = prior
    /\ (status = "run" /\ "start" \in events) =>
          /\ Len(stack) >= 2
          /\ stack[1] = DecodeFrame
          /\ stack[2].k \in {"decodeStruct", "innerxml"}
          /\ stack[2].t = rtype
    /\ (status = "done" /\ rv = "ptr" /\ "start" \notin events) =>
          /\ target = prior
          /\ err = (IF srcErr = "EOF" THEN "nil" ELSE srcErr)

\* C10, witness: Decode read tokens that are no start element, then the end of
\* the stream, and returned nil with the non-zero target it was given
C10_Witness ==
    /\ status = "done"
    /\ "start" \notin events
    /\ srcErr = "EOF"
    /\ err = "nil"
    /\ ntok >= 2
    /\ target = Prior(rtype)
    /\ target # Zero(rtype)

(***************************************************************************)
(* C11                                                                     *)
(***************************************************************************)
\* C11: invalid target.  When what is passed to Decode is not a pointer or is a
\* nil pointer, Decode returns the error of its target check, and the token
\* source has handed out no token, no end of stream and no error.
C11_InvalidTarget ==
    (status = "done" /\ rv # "ptr") =>
        /\ err = "decode target must be a non-nil pointer"
        /\ ntok = 0 /\ depth = 0 /\ srcErr = "nil"
        /\ events = {}
        /\ target = prior

\* C11, witness: Decode returned for a nil pointer
C11_Witness ==
    /\ status = "done"
    /\ rv = "nil"
    /\ err = "decode target must be a non-nil pointer"

(***************************************************************************)
(* C12                                                                     *)
(***************************************************************************)
\* the primitive target types and the texts of the coercion claims
PrimTypes == {TString, TBool, TInt(8), TUint(8), TPtr(TInt(8))}
CoercionTexts ==
    { <<>>, <<"7">>, <<"-", "7">>, <<"x">>, sTrue, <<"T", "R", "U", "E">>, <<"1">>,
      <<"f", "a", "l", "s", "e">>, <<"4", " ", "2">>, <<"3", "0", "0">>, <<"2", "0", "0">>,
      <<"-", "2", "0", "0">> }
Padded(s) == <<" ">> \o s \o <<"\n", " ">>

\* the function that consumes the text of an element of primitive type t
PrimFn(t) ==
    CASE t.kind = "string" -> "decodeString"
      [] t.kind = "bool" -> "decodeBool"
      [] t.kind = "int" -> "decodeInt"
      [] t.kind = "uint" -> "decodeUint"

\* value and error of an element of primitive type t whose text is s
ElementCoerce(t, s) == PrimSet([PrimFrame(PrimFn(t), t, Zero(t)) EXCEPT !.s = s])

\* C12: trim before coercion.  For every primitive target and every text, the
\* text with whitespace around it gives the value or error the text itself
\* gives, from an element and from an attribute value alike.
C12_TrimBeforeCoercion ==
    status = "call" =>
        \A s \in CoercionTexts :
            /\ \A t \in PrimTypes \ {TPtr(TInt(8))} :
                  ElementCoerce(t, Padded(s)) = ElementCoerce(t, s)
            /\ \A t \in PrimTypes :
                  setFieldValue(t, Zero(t), Padded(s)) = setFieldValue(t, Zero(t), s)

(***************************************************************************)
(* C13                                                                     *)
(***************************************************************************)
PaddedTexts == CoercionTexts \cup { Padded(s) : s \in CoercionTexts }

\* C13: boolean coercion.  A boolean target, filled from an element or from
\* an attribute value, becomes true exactly when the trimmed text is the
\* literal "true", becomes false for every other text, and never gives an error.
C13_BooleanCoercion ==
    status = "call" =>
        \A s \in PaddedTexts :
            /\ ElementCoerce(TBool, s) = [val |-> (TrimSpace(s) = sTrue), err |-> "nil"]
            /\ setFieldValue(TBool, FALSE, s) = [val |-> (TrimSpace(s) = sTrue), err |-> "nil"]

(***************************************************************************)
(* C14                                                                     *)
(***************************************************************************)
\* x reduced modulo 2^w into the range of the integer type t
Reduced(x, t) ==
    IF t.kind = "int"
    THEN CHOOSE v \in (0 - 2^(t.bits - 1))..(2^(t.bits - 1) - 1) : (x - v) % 2^t.bits = 0
    ELSE CHOOSE v \in 0..(2^t.bits - 1) : (x - v) % 2^t.bits = 0

Fits(x, t) == x = Reduced(x, t)

\* the text parses as a number of the kind of t, and its value
Parses(s, t) == IF t.kind = "int" THEN ParseIntOk(s) ELSE ParseUintOk(s)
Parsed(s, t) == IF t.kind = "int" THEN ParseIntVal(s) ELSE ParseUintVal(s)

\* the struct field a decodeStruct or decodeMultiplePathFields frame is filling
FieldOf(f) == IF f.k = "decodeStruct" THEN f.i ELSE f.pathFields[f.i].field

IsRecordFrame(f) == f.k \in {"decodeStruct", "decodeMultiplePathFields"}

\* after the innermost frame of stk returned v, the frames stk2 hold v in the
\* field being filled: directly, behind a pointer, or as the last item of a
\* sequence
Stored(stk, stk2, v) ==
    LET n == Len(stk)
        p == stk[n - 1]
    IN IF IsRecordFrame(p)
       THEN Len(stk2) >= n - 1 /\ stk2[n - 1].val[FieldOf(p)] = v
       ELSE /\ IsRecordFrame(stk[n - 2])
            /\ Len(stk2) >= n - 2
            /\ stk2[n - 2].val[FieldOf(stk[n - 2])] =
                  (IF (p.k = "decodeElement" /\ p.case = "slice")
                      \/ (p.k = "decodeAnyElement" /\ p.mode = "slice")
                   THEN Append(p.val, v)
                   ELSE <<v>>)

IntTypes == {TInt(8), TUint(8)}

\* decodeInt or decodeUint reads the end element after a text that parses
IntegerRead ==
    /\ status = "run"
    /\ Top(stack).k \in {"decodeInt", "decodeUint"}
    /\ srcErr' = "nil" /\ depth' = depth - 1
    /\ Parses(TrimSpace(Top(stack).s), Top(stack).t)

\* C14: integer overflow is silent truncation.  When the text of an element
\* or of an attribute parses as a decimal number, the conversion gives no
\* error and the integer target of width w holds the number reduced modulo
\* 2^w, two's complement for a signed target, whether the number fits or not.
C14_OverflowWraps ==
    [][ /\ ntok = 0 =>
            \A t \in IntTypes : \A s \in CoercionTexts :
                Parses(s, t) =>
                    setFieldValue(t, 0, s) = [val |-> Reduced(Parsed(s, t), t), err |-> "nil"]
        /\ IntegerRead =>
            /\ err' = "nil" /\ status' = "run"
            /\ Stored(stack, stack',
                      Reduced(Parsed(TrimSpace(Top(stack).s), Top(stack).t), Top(stack).t))
      ]_vars

\* <c>777</c> was decoded into an int8 and into a uint8 without error: both hold 9
C14_Witness ==
    /\ status = "done" /\ err = "nil" /\ rtype = TNest
    /\ ~Fits(777, TInt(8)) /\ ~Fits(777, TUint(8))
    /\ \/ target[1] = Reduced(777, TInt(8))
       \/ target[2] # <<>> /\ target[2][1][1] = Reduced(777, TUint(8))

(***************************************************************************)
(* C15                                                                     *)
(***************************************************************************)
\* the struct type declares a chardata field and a cdata field
BothTextFields(t) == findChardataField(t) # 0 /\ findCDataField(t) # 0

Smaller(a, b) == IF a < b THEN a ELSE b
Larger(a, b) == IF a < b THEN b ELSE a
FirstTextField(t) == Smaller(findChardataField(t), findCDataField(t))
SecondTextField(t) == Larger(findChardataField(t), findCDataField(t))

\* C15: CharData/CData exclusivity.  In a record that declares both a
\* CharData and a CData field, in either order, the field declared second
\* keeps its default value, and a successful decode that changed the record
\* put the text into the field declared first.
C15_FirstDeclaredWins ==
    /\ \A j \in 1..Len(stack) :
          (stack[j].k = "decodeStruct" /\ BothTextFields(stack[j].t)) =>
              stack[j].val[SecondTextField(stack[j].t)] = <<>>
    /\ (status = "done" /\ BothTextFields(rtype)) =>
          /\ target[SecondTextField(rtype)] = <<>>
          /\ (err = "nil" /\ target # prior) => target[FirstTextField(rtype)] # <<>>

(***************************************************************************)
(* C16                                                                     *)
(***************************************************************************)
\* the captured tokens are none, or begin with a start element
FromFirstStart(buf) == buf = <<>> \/ buf[1].k = "start"

\* C16: InnerSubtree capture starts at the first child start-element.  In a
\* record with an InnerSubtree field, text and comments before the first child
\* start element are not part of the capture, which holds the tokens from that
\* start element to the end element of the frame; the frame ends at its own
\* end element.
C16_CaptureFromFirstChild ==
    /\ \A j \in 1..Len(stack) :
          stack[j].k = "innerxml" =>
              /\ FromFirstStart(stack[j].buf)
              /\ stack[j].depth >= 0
    /\ (status = "done" /\ rv = "ptr" /\ findInnerXMLField(rtype) # 0) =>
          FromFirstStart(target[findInnerXMLField(rtype)])

(***************************************************************************)
(* C17                                                                     *)
(***************************************************************************)
\* what the text s of a leaf gives in a target of type t: a primitive, or a
\* pointer to one, or an item of a sequence of them
LeafCoerce(t, s) ==
    IF t.kind \in {"ptr", "slice"}
    THEN [val |-> <<ElementCoerce(t.elem, s).val>>, err |-> ElementCoerce(t.elem, s).err]
    ELSE ElementCoerce(t, s)

\* the field of type t holding v holds what the text s of a leaf gives
HoldsLeaf(t, v, s) ==
    IF t.kind = "slice"
    THEN \E c \in 1..Len(v) : <<v[c]>> = LeafCoerce(t, s).val
    ELSE v = LeafCoerce(t, s).val

\* C17: path round-trip.  When the document nested elements matching the
\* segments of a path descriptor around a leaf, among any unknown sibling
\* elements at any level, and the text of the leaf converts to the type of
\* the field, the field holds that text when Decode returns.
C17_PathRoundTrip ==
    (status = "done" /\ doc.plain) =>
        \A g \in doc.got :
            LeafCoerce(rtype.fields[g.field].type, g.text).err = "nil" =>
                HoldsLeaf(rtype.fields[g.field].type, target[g.field], g.text)

\* <w><z/><p:b><c>7</c></p:b></w>, or the same with the unknown element at
\* another level, was decoded into the field of the path w>p:b>c
C17_Witness ==
    /\ status = "done" /\ err = "nil"
    /\ doc.plain /\ doc.sibling
    /\ [field |-> 2, text |-> <<"7">>] \in doc.got
    /\ Len(SegmentsOf(rtype, 2)) = 3
    /\ target[2] = 7

(***************************************************************************)
(* C18                                                                     *)
(***************************************************************************)
\* the document has opened a leaf of the path field i
LeafOpened(i) == \E names \in doc.entered : i \in LeafOf(rtype, names)

\* some path field of the decoded type has no leaf in the document
SomePathMissing == \E i \in PathFields(rtype) : ~LeafOpened(i)

Assigned(t, attrs) ==
    { a \in 1..Len(attrs) :
        \E i \in AttrFields(t) :
            /\ AttributeRule(TagName(t.fields[i].tag), attrs[a])
            /\ \A b \in 1..(a - 1) : ~AttributeRule(TagName(t.fields[i].tag), attrs[b]) }

\* the other attributes, in document order
Unassigned(t, attrs) == SelectIdx(attrs, (1..Len(attrs)) \ Assigned(t, attrs), 1)

\* the attribute has the local name of a descriptor of t with an undeclared prefix
AimedAtInert(t, a) ==
    \E i \in AttrFields(t) :
        /\ InertName(TagName(t.fields[i].tag))
        /\ LocalOf(TagName(t.fields[i].tag)) = a.name.local

\* C19: AnyAttribute partition.  After the Enter step of a frame whose record
\* declares an AnyAttribute field, the field holds exactly the attributes of
\* the element that no attribute descriptor took, in document order; an
\* attribute aimed at a descriptor with an undeclared prefix is among them.
C19_AnyAttrPartition ==
    /\ ntok = 0 =>
          \A attrs \in AllAttrLists : \A v \in {Zero(TAnyAttr), Prior(TAnyAttr)} :
              \E r \in {decodeAttributes(TAnyAttr, v, attrs)} :
                  r.err = "nil" =>
                      /\ r.val[findAnyAttrIdx(TAnyAttr)] = Unassigned(TAnyAttr, attrs)
                      /\ \A a \in 1..Len(attrs) :
                            AimedAtInert(TAnyAttr, attrs[a]) =>
                                \E b \in 1..Len(r.val[findAnyAttrIdx(TAnyAttr)]) :
                                    r.val[findAnyAttrIdx(TAnyAttr)][b] = attrs[a]
    /\ (rtype = TAnyAttr /\ Len(stack) >= 2 /\ stack[2].k = "decodeStruct") =>
          stack[2].val[findAnyAttrIdx(rtype)]
              \in { Unassigned(rtype, e.attr) : e \in StartsOf(rtype) }

(***************************************************************************)
(* C20                                                                     *)
(***************************************************************************)
\* the first AnyElement descriptor of a record type: the modifier any alone
AnyElementField(t) == FirstIdx({ i \in 1..Len(t.fields) : t.fields[i].tag = sAny })

\* frame k was resumed by this step: the call it was waiting for has returned
Resumed(k) ==
    /\ Pending(k)
    /\ Len(stack') >= k
    /\ stack'[k].k = "decodeStruct"
    /\ stack'[k].call = "none"

\* frame k is waiting for the start element it read, which is routed as the
\* claim says
Routed(k) ==
    LET f == stack[k]
    IN /\ (Matching(f.t, f.tok) = {} /\ AnyElementField(f.t) # 0) =>
              /\ stack[k + 1].k = "decodeAnyElement"
              /\ f.i = AnyElementField(f.t)
       /\ (Matching(f.t, f.tok) = {} /\ AnyElementField(f.t) = 0) =>
              /\ f.call = "skip"
              /\ stack[k + 1].k = "Skip"
       /\ Matching(f.t, f.tok) # {} => stack[k + 1].k \notin {"decodeAnyElement", "Skip"}

\* C20: AnyElement routing.  A child element that matches no element or path
\* descriptor goes to the first AnyElement field of the record when there is
\* one, and a sequence-typed field has gained exactly one item, at its end,
\* when the frame goes on; without such a field the element is skipped and the
\* record is unchanged when the frame goes on; an element that matches a
\* descriptor is never routed to the AnyElement field.
C20_AnyElementRouting ==
    [][ \A k \in 1..(Len(stack) - 1) :
            Pending(k) =>
                /\ Routed(k)
                /\ (Resumed(k) /\ stack[k + 1].k = "decodeAnyElement"
                        /\ stack[k].t.fields[stack[k].i].type.kind = "slice") =>
                      /\ Len(stack'[k].val[stack[k].i]) = Len(stack[k].val[stack[k].i]) + 1
                      /\ SubSeq(stack'[k].val[stack[k].i], 1, Len(stack[k].val[stack[k].i]))
                            = stack[k].val[stack[k].i]
                /\ (Resumed(k) /\ stack[k].call = "skip") => stack'[k].val = stack[k].val
      ]_vars

(***************************************************************************)
(* C21                                                                     *)
(***************************************************************************)
\* the descriptor is Skip: no annotation, the annotation "-", or a name that
\* begins with xmlns
SkipTag(tag) == tag = <<>> \/ tag = sDash \/ HasPrefix(TagName(tag), sXmlns)

SkipFieldsKept(t, val) ==
    \A i \in 1..Len(t.fields) : SkipTag(t.fields[i].tag) => val[i] = prior[i]

\* C21: Skip fields are never written.  A field with a blank annotation, the
\* annotation "-", or a name beginning with xmlns holds the value it held
\* before the call in every frame of the decoded record and in the target
\* Decode returns, whatever elements, attributes and comments were read.
C21_SkipFieldsNeverWritten ==
    /\ \A k \in 1..Len(stack) :
          (stack[k].k \in {"decodeStruct", "innerxml", "decodeMultiplePathFields"}
              /\ stack[k].t = rtype) => SkipFieldsKept(rtype, stack[k].val)
    /\ (status = "done" /\ rv = "ptr") => SkipFieldsKept(rtype, target)

(***************************************************************************)
(* C22                                                                     *)
(***************************************************************************)
\* the start element matches the first segment of a path descriptor of t
OnSomePath(t, start) ==
    \E i \in PathFields(t) : ElementRule(SegmentsOf(t, i)[1], start)

\* C22: path dispatch has priority.  A child start element that matches the
\* first segment of a path descriptor of the record is handed to the
\* path-group decoder and to nothing else: when the frame goes on, the fields
\* that are not path fields, an element field of the same name and the
\* AnyElement field among them, are as they were.
C22_PathPriority ==
    [][ \A k \in 1..(Len(stack) - 1) :
            (Pending(k) /\ OnSomePath(stack[k].t, stack[k].tok)) =>
                /\ stack[k].call = "path"
                /\ stack[k + 1].k = "decodeMultiplePathFields"
                /\ Resumed(k) =>
                      \A i \in (1..Len(stack[k].t.fields)) \ PathFields(stack[k].t) :
                          stack'[k].val[i] = stack[k].val[i]
      ]_vars

\* <w><n>x</n></w> was decoded by a record with the fields w, w>n and ,any:
\* only the path field has the text
C22_Witness ==
    /\ status = "done" /\ err = "nil" /\ rtype = TPrio
    /\ Matching(TPrio, eW) = {1, 2}
    /\ target = << <<>>, << <<"x">> >>, <<>> >>

(***************************************************************************)
(* C23                                                                     *)
(***************************************************************************)
\* the element descriptors of t that are not path descriptors
PlainFields(t) == ElemFields(t) \ PathFields(t)

\* the plain descriptors that match the start element
PlainMatching(t, start) ==
    { i \in PlainFields(t) : ElementRule(t.fields[i].tag, start) }

\* every element of the documents that matches the plain descriptor i matches
\* a plain descriptor declared before it
Shadowed(t, i) ==
    \E j \in PlainFields(t) :
        /\ j < i
        /\ \A e \in StartsOf(rtype) :
              ElementRule(t.fields[i].tag, e) => ElementRule(t.fields[j].tag, e)

\* C23: first declared wins in element resolution.  A child element that
\* matches plain element descriptors of the record and no path descriptor is
\* dispatched to the one declared first, and a descriptor that only matches
\* what an earlier one matches is never assigned.
C23_FirstDeclaredElement ==
    /\ \A k \in 1..(Len(stack) - 1) :
          (Pending(k) /\ PlainMatching(stack[k].t, stack[k].tok) # {}
                      /\ ~OnSomePath(stack[k].t, stack[k].tok)) =>
              /\ stack[k].call = "field"
              /\ stack[k].i \in PlainMatching(stack[k].t, stack[k].tok)
              /\ \A j \in PlainMatching(stack[k].t, stack[k].tok) : stack[k].i <= j
    /\ \A k \in 1..Len(stack) :
          (stack[k].k = "decodeStruct" /\ stack[k].t = rtype) =>
              \A i \in PlainFields(rtype) :
                  Shadowed(rtype, i) => stack[k].val[i] = prior[i]
    /\ (status = "done" /\ rv = "ptr") =>
          \A i \in PlainFields(rtype) : Shadowed(rtype, i) => target[i] = prior[i]

\* <p:b>x</p:b> and <n>x</n> were decoded under a context that gives r and p
\* the same URI: the fields r:b and n declared first have the texts
C23_Witness ==
    /\ status = "done" /\ err = "nil" /\ rtype = TFirst
    /\ PlainMatching(TFirst, eB) = {1, 2} /\ PlainMatching(TFirst, eN) = {3, 4}
    /\ target = << <<"x">>, <<>>, <<"x">>, <<>> >>

(***************************************************************************)
(* C24                                                                     *)
(***************************************************************************)
\* records whose element names contain a modifier keyword: attrs, chardata,
\* innerxml, comment
RoleTypes ==
    { TRole,
      TStruct(<< Field(sAttr \o <<"s">>, TString), Field(<<"n">>, TString) >>),
      TStruct(<< Field(sChardata, TString), Field(<<"n">>, TString) >>),
      TStruct(<< Field(sInnerxml, TString), Field(<<"n">>, TString) >>) }

\* the descriptor of field i has the Element role: a name that is not Skip and
\* no modifier
ElementRole(t, i) == i \in ElemFields(t) /\ ~SkipTag(t.fields[i].tag)

\* C24: role classification reads modifiers only.  A field whose annotation is
\* a name without modifier has the Element role even when the name contains
\* attr, chardata, innerxml or comment: it is resolved for the child element
\* of its name, and it is not the Attribute, CharData, CData, InnerSubtree or
\* Comment field of the record, so comments are never written to it.
C24_RoleFromModifiers ==
    /\ ntok = 0 =>
          \A t \in RoleTypes : \A i \in 1..Len(t.fields) :
              ElementRole(t, i) =>
                  /\ \A uri \in {nsU, nsNone} :
                        ElementRule(t.fields[i].tag, StartElement(uri, t.fields[i].tag, <<>>))
                            => findFieldWithTag(t, StartElement(uri, t.fields[i].tag, <<>>)) = i
                  /\ ~IsAttrField(t, i, 0)
                  /\ i \notin {findChardataField(t), findCDataField(t),
                               findInnerXMLField(t), findCommentField(t)}
    /\ (status = "done" /\ rtype = TRole) =>
          \A c \in 1..Len(target[1]) : target[1][c] # "m"

(***************************************************************************)
(* C25                                                                     *)
(***************************************************************************)
\* frame k is waiting for an item of the sequence of one of its element fields
ItemPending(k) ==
    /\ Pending(k)
    /\ stack[k].call = "field"
    /\ stack[k].i \in PlainFields(stack[k].t)
    /\ stack[k].t.fields[stack[k].i].type.kind = "slice"

\* C25: sequence accumulation.  Each time a frame goes on after an item of a
\* sequence-typed element field, the sequence is what it was followed by
\* exactly one item, and the item came from a direct child of the frame's
\* element that matches the field and was read to its end; when the item
\* fails, Decode fails and the sequence is what it was.
C25_SequenceAccumulation ==
    [][ \A k \in 1..(Len(stack) - 1) :
            ItemPending(k) =>
                /\ stack[k].i \in Matching(stack[k].t, stack[k].tok)
                /\ Resumed(k) =>
                      /\ Len(stack'[k].val[stack[k].i]) = Len(stack[k].val[stack[k].i]) + 1
                      /\ SubSeq(stack'[k].val[stack[k].i], 1, Len(stack[k].val[stack[k].i]))
                            = stack[k].val[stack[k].i]
                      /\ Opened(stack') = depth'
                /\ (k = 2 /\ status' = "done" /\ err' \in CoercionErrors) =>
                      target'[stack[k].i] = stack[k].val[stack[k].i]
      ]_vars

(***************************************************************************)
(* C26                                                                     *)
(***************************************************************************)
\* the frame on top is the child loop of a record that declares a chardata field
TextFrame ==
    /\ status = "run"
    /\ Len(stack) > 0
    /\ Top(stack).k = "decodeStruct"
    /\ Top(stack).call = "none"
    /\ findChardataField(Top(stack).t) # 0

\* C26: CharData collects direct text only.  A frame adds a text token to its
\* accumulator only when the token is a direct child of the frame's element,
\* and at its end element its chardata field is the trimmed accumulator:
\* empty when the element holds only whitespace.
C26_DirectTextOnly ==
    [][ TextFrame =>
            /\ (Len(stack') = Len(stack) /\ Top(stack').chardata # Top(stack).chardata)
                  => /\ Opened(stack) = depth
                     /\ \E v \in TextsOf(rtype) : Top(stack').chardata = Top(stack).chardata \o v
            /\ (Top(stack).t = rtype /\ depth' = depth - 1 /\ status' = "done")
                  => /\ err' = "nil"
                     /\ target'[findChardataField(rtype)] = TrimSpace(Top(stack).chardata)
      ]_vars

(***************************************************************************)
(* C27                                                                     *)
(***************************************************************************)
IsPathFrame(f) == f.k = "decodeMultiplePathFields"

\* the members of the path group f whose next segment is the element start
NextMatches(f, start) ==
    { i \in 1..Len(f.pathFields) :
          /\ Len(Split(f.pathFields[i].tag, ">")) >= 2
          /\ ElementRule(Split(f.pathFields[i].tag, ">")[2], start) }

\* the path group at k lives through the step
GroupStays(k) ==
    /\ IsPathFrame(stack[k])
    /\ Len(stack') >= k
    /\ IsPathFrame(stack'[k])
    /\ stack'[k].pathFields = stack[k].pathFields

\* C27: path members resolve once per parent.  A path group hands a child
\* element only to members it has not resolved, a member is resolved once a
\* child was handed to it, a resolved member stays resolved, a child that
\* matches only resolved members is skipped, and over one run of the group a
\* sequence-typed path field gains at most one item.
C27_MembersResolveOnce ==
    [][ \A k \in 2..Len(stack) :
            /\ (IsPathFrame(stack[k]) /\ stack[k].call = "field")
                  => /\ stack[k].i \notin stack[k].foundFields
                     /\ stack[k].i \in NextMatches(stack[k], stack[k].tok)
                     /\ (GroupStays(k) /\ stack'[k] # stack[k])
                           => stack[k].i \in stack'[k].foundFields
            /\ GroupStays(k)
                  => /\ stack[k].foundFields \subseteq stack'[k].foundFields
                     /\ stack'[k].call = "skip"
                           => NextMatches(stack'[k], stack'[k].tok) \subseteq stack'[k].foundFields
                     /\ (stack'[k].call # "skip" /\ stack'[k].tok # NoToken)
                           => NextMatches(stack'[k], stack'[k].tok) # {}
            /\ (IsPathFrame(stack[k]) /\ Pending(k - 1) /\ Resumed(k - 1))
                  => \A j \in 1..Len(stack[k].pathFields) :
                        LET fld == stack[k].pathFields[j].field
                        IN stack[k].t.fields[fld].type.kind = "slice"
                              => Len(stack'[k - 1].val[fld]) <= Len(stack[k - 1].val[fld]) + 1
      ]_vars

\* a second <n> of one <w> is skipped: the sequence w>n has its one item
C27_Witness ==
    /\ rtype = TPrio /\ status = "run" /\ Len(stack) >= 3
    /\ Top(stack).k = "Skip"
    /\ IsPathFrame(stack[Len(stack) - 1])
    /\ stack[Len(stack) - 1].call = "skip"
    /\ stack[Len(stack) - 1].tok = eN
    /\ stack[Len(stack) - 1].foundFields = {1}
    /\ NextMatches(stack[Len(stack) - 1], eN) = {1}
    /\ stack[Len(stack) - 1].val[2] = << <<"x">> >>

(***************************************************************************)
(* C28                                                                     *)
(***************************************************************************)
\* the path group at k goes on after the child element it handed to a member
MemberReturned(k) ==
    /\ IsPathFrame(stack[k])
    /\ stack[k].call = "field"
    /\ GroupStays(k)
    /\ stack'[k] # stack[k]

\* C28: path-group stream balance.  When the member a child element was
\* handed to has read it, the group goes back to reading tokens: it does not
\* start a second reader on the same start element; and a group that is in
\* step with the document stays in step with every token it reads itself, so
\* that it returns on the end element of its parent.
C28_GroupStreamBalance ==
    [][ /\ \A k \in 2..Len(stack) :
              MemberReturned(k) => /\ Len(stack') = k
                                   /\ stack'[k].call = "none"
        /\ (status = "run" /\ IsPathFrame(Top(stack)) /\ Opened(stack) = depth
               /\ status' = "run")
              => Opened(stack') = depth'
      ]_vars

(***************************************************************************)
(* C29                                                                     *)
(***************************************************************************)
\* the frame of the root record is busy with the element of its field i
BusyWith(f, i) ==
    /\ f.k = "decodeStruct"
    /\ \/ f.call = "field" /\ f.i = i
       \/ f.call = "path" /\ i \in PathFields(f.t)

\* the frame of the root record reads the failing token itself
Reading(f) == f.k = "decodeStruct" /\ f.call = "none"

\* new keeps what old held in a field of type t: the items of a sequence, the
\* allocation of a pointer
Keeps(t, old, new) ==
    CASE t.kind = "slice" -> Len(new) >= Len(old) /\ SubSeq(new, 1, Len(old)) = old
      [] t.kind = "ptr" -> old # <<>> => new # <<>>
      [] OTHER -> TRUE

\* C29: no rollback on error.  When Decode returns an error, the target holds
\* every field as the frame of the root record held it at the failing token:
\* attribute values, elements decoded before, items appended, pointers
\* allocated; only the field of the element that was being decoded may hold
\* more.  When an attribute of the root fails, the target holds what the
\* attributes before it gave.
C29_NoRollback ==
    [][ (status = "run" /\ status' = "done" /\ err' # "nil" /\ rv = "ptr") =>
            /\ (Len(stack) >= 2 /\ stack[2].k \in {"decodeStruct", "innerxml"}) =>
                  /\ \A i \in 1..Len(rtype.fields) :
                        IF BusyWith(stack[2], i) \/ Reading(stack[2])
                        THEN Keeps(rtype.fields[i].type, stack[2].val[i], target'[i])
                        ELSE target'[i] = stack[2].val[i]
                  /\ Reading(stack[2]) =>
                        \A i, j \in 1..Len(rtype.fields) :
                            (target'[i] # stack[2].val[i] /\ target'[j] # stack[2].val[j])
                                => i = j
            /\ (Len(stack) = 1 /\ err' \in CoercionErrors) =>
                  \E e \in StartsOf(rtype) :
                      /\ decodeAttributes(rtype, target, e.attr).err = err'
                      /\ target' = decodeAttributes(rtype, target, e.attr).val
      ]_vars

\* Decode has returned a conversion error and the target holds the item 7 that
\* was appended to the sequence before the failing element
C29_Witness ==
    /\ status = "done" /\ rtype = TSeq /\ rv = "ptr"
    /\ err = "failed to parse integer"
    /\ prior[1] = <<>>
    /\ target[1] = <<7>>

(***************************************************************************)
(* C30                                                                     *)
(***************************************************************************)
Max(S) == CHOOSE x \in S : \A y \in S : y <= x

\* the pointers, sequences and any fields nested in a value of type t
RECURSIVE TypeDepth(_)
TypeDepth(t) ==
    CASE t.kind \in {"ptr", "slice"} -> 1 + TypeDepth(t.elem)
      [] t.kind = "struct" ->
            Max({0} \cup { TypeDepth(t.fields[i].type)
                              + (IF IsAnyTag(t.fields[i].tag) THEN 1 ELSE 0)
                           : i \in 1..Len(t.fields) })
      [] OTHER -> 0

\* the frames of stk that were entered for an element of the document
ElementFrames(stk) ==
    Cardinality({ k \in 1..Len(stk) :
                    stk[k].k \in {"decodeStruct", "innerxml", "decodeMultiplePathFields",
                                  "decodeString", "decodeBool", "decodeInt", "decodeUint",
                                  "Skip"} })

\* C30: termination.  Every call of Decode returns: the token stream is finite
\* and a running call goes on reading.  Every token the source hands out
\* advances the stream, by a token read or an element closed, and after an
\* error of the source no further token is read.  The call stack holds at most
\* one frame per open element of the deepest document, and besides these the
\* frame of Decode and as many frames as the target type nests pointers,
\* sequences and any fields.
C30_Termination ==
    /\ <>(status = "done")
    /\ [][ status = "run" =>
              /\ srcErr' = "nil" => (ntok' = ntok + 1 \/ depth' = depth - 1)
              /\ srcErr' # "nil" => (ntok' = ntok /\ depth' = depth)
              /\ srcErr # "nil" => srcErr' = srcErr
         ]_vars
    /\ [](status = "run" =>
              /\ ntok <= MaxTokens
              /\ ElementFrames(stack) <= MaxDepth
              /\ Len(stack) <= 1 + ElementFrames(stack) + TypeDepth(rtype))

\* Decode has returned at the end of a stream of MaxTokens tokens
C30_Witness ==
    /\ status = "done" /\ err = "nil"
    /\ srcErr = "EOF"
    /\ ntok = MaxTokens
    /\ target # prior

====
